---- MODULE Spec2Model ----
(***************************************************************************)
(* A model of n8n-cli: the command-tree compiler (tools/gen_command_tree.rs)*)
(* and the runtime interpreter (src/main.rs).                              *)
(*                                                                         *)
(* Text is modelled as a sequence of one-character strings, so that        *)
(* trimming, prefix/suffix tests, replacement, percent-encoding and        *)
(* parsing are computed character by character as the code computes them.  *)
(***************************************************************************)
EXTENDS Integers, Sequences, FiniteSets, TLC

(***************************************************************************)
(* Text                                                                    *)
(***************************************************************************)

\* A string literal as a sequence of characters.
Str(s) == [i \in 1..Len(s) |-> SubSeq(s, i, i)]

\* The printable ASCII characters, in code order from 32 (space) to 126 (~).
\* The grave accent (code 96) cannot be written in a TLA+ string; it is
\* named instead, and occurs in no text of the model.
Ascii == Str(" !\"#$%&'()*+,-./0123456789:;<=>?@ABCDEFGHIJKLMNOPQRSTUVWXYZ[\\]^_") \o <<"grave">> \o Str("abcdefghijklmnopqrstuvwxyz{|}~")

CodeTable == [c \in {Ascii[i] : i \in 1..Len(Ascii)} |-> 31 + (CHOOSE i \in 1..Len(Ascii) : Ascii[i] = c)]

CharCode(c) == CodeTable[c]

is_ascii_digit(c) == CharCode(c) \in 48..57

is_ascii_uppercase(c) == CharCode(c) \in 65..90

is_ascii_lowercase(c) == CharCode(c) \in 97..122

is_ascii_alphanumeric(c) == is_ascii_digit(c) \/ is_ascii_uppercase(c) \/ is_ascii_lowercase(c)

to_ascii_lowercase(c) == IF is_ascii_uppercase(c) THEN Ascii[CharCode(c) + 32 - 31] ELSE c

\* char::is_whitespace restricted to the ASCII characters of the model.
is_whitespace(c) == c = " "

DigitVal(c) == CharCode(c) - 48

\* str::to_ascii_lowercase
str_to_ascii_lowercase(s) == [i \in 1..Len(s) |-> to_ascii_lowercase(s[i])]

\* str::to_uppercase, for ASCII text.
to_uppercase(s) ==
    [i \in 1..Len(s) |-> IF is_ascii_lowercase(s[i]) THEN Ascii[CharCode(s[i]) - 32 - 31] ELSE s[i]]

\* str::starts_with
starts_with(s, p) == Len(p) <= Len(s) /\ SubSeq(s, 1, Len(p)) = p

\* str::ends_with
ends_with(s, p) == Len(p) <= Len(s) /\ SubSeq(s, Len(s) - Len(p) + 1, Len(s)) = p

\* str::trim_end_matches(ch): every trailing ch is removed.
RECURSIVE trim_end_matches(_, _)
trim_end_matches(s, ch) ==
    IF s /= <<>> /\ s[Len(s)] = ch THEN trim_end_matches(SubSeq(s, 1, Len(s) - 1), ch) ELSE s

\* str::trim_start_matches(ch)
RECURSIVE trim_start_matches(_, _)
trim_start_matches(s, ch) ==
    IF s /= <<>> /\ s[1] = ch THEN trim_start_matches(Tail(s), ch) ELSE s

\* str::trim_matches(ch)
trim_matches(s, ch) == trim_end_matches(trim_start_matches(s, ch), ch)

\* str::trim_start
RECURSIVE trim_start(_)
trim_start(s) == IF s /= <<>> /\ is_whitespace(s[1]) THEN trim_start(Tail(s)) ELSE s

\* str::trim
RECURSIVE trim_end(_)
trim_end(s) ==
    IF s /= <<>> /\ is_whitespace(s[Len(s)]) THEN trim_end(SubSeq(s, 1, Len(s) - 1)) ELSE s

trim(s) == trim_end(trim_start(s))

\* str::replace(from, to): every non-overlapping match, left to right.
RECURSIVE replace(_, _, _)
replace(s, from, to) ==
    IF s = <<>> \/ from = <<>> THEN s
    ELSE IF starts_with(s, from)
         THEN to \o replace(SubSeq(s, Len(from) + 1, Len(s)), from, to)
         ELSE <<s[1]>> \o replace(Tail(s), from, to)

\* str::contains
contains(s, p) == \E i \in 1..(Len(s) - Len(p) + 1) : SubSeq(s, i, i + Len(p) - 1) = p

\* The number of (possibly overlapping) places where p occurs in s.
Occurrences(s, p) == Cardinality({i \in 1..(Len(s) - Len(p) + 1) : SubSeq(s, i, i + Len(p) - 1) = p})

\* Ord for String: byte-wise lexicographic order.
RECURSIVE StrLess(_, _)
StrLess(a, b) ==
    IF b = <<>> THEN FALSE
    ELSE IF a = <<>> THEN TRUE
    ELSE IF a[1] = b[1] THEN StrLess(Tail(a), Tail(b))
    ELSE CharCode(a[1]) < CharCode(b[1])

HexDigits == Str("0123456789ABCDEF")

\* urlencoding::encode: every byte but the unreserved ones becomes %XX.
RECURSIVE urlencoding_encode(_)
urlencoding_encode(s) ==
    IF s = <<>> THEN <<>>
    ELSE LET c == s[1]
             keep == is_ascii_alphanumeric(c) \/ c \in {"-", "_", ".", "~"}
             enc == IF keep THEN <<c>>
                    ELSE <<"%", HexDigits[(CharCode(c) \div 16) + 1], HexDigits[(CharCode(c) % 16) + 1]>>
         IN enc \o urlencoding_encode(Tail(s))

(***************************************************************************)
(* Results and JSON values (serde_json::Value)                             *)
(***************************************************************************)

Ok(v) == [ok |-> TRUE, val |-> v]

Err(msg) == [ok |-> FALSE, err |-> msg]

VNull == [t |-> "null"]

VBool(b) == [t |-> "bool", b |-> b]

\* Number holding an integer (serde_json's PosInt / NegInt).
VInt(i) == [t |-> "int", i |-> i]

\* Number holding a float, as sign, decimal mantissa and decimal exponent,
\* normalised so that equal floats are equal records (-0.0 keeps its sign).
RECURSIVE NormFloat(_, _, _)
NormFloat(neg, mant, exp) ==
    IF mant = 0 THEN [t |-> "float", neg |-> neg, mant |-> 0, exp |-> 0]
    ELSE IF mant % 10 = 0 THEN NormFloat(neg, mant \div 10, exp + 1)
    ELSE [t |-> "float", neg |-> neg, mant |-> mant, exp |-> exp]

VFloat(neg, mant, exp) == NormFloat(neg, mant, exp)

VString(s) == [t |-> "string", s |-> s]

VArray(a) == [t |-> "array", a |-> a]

\* An object is a map from member names to values (a BTreeMap: no order of
\* insertion, one value per name).
VObject(o) == [t |-> "object", o |-> o]

EmptyMap == [k \in {} |-> VNull]

MapInsert(m, k, v) == [x \in (DOMAIN m) \cup {k} |-> IF x = k THEN v ELSE m[x]]

(***************************************************************************)
(* Number syntax                                                           *)
(***************************************************************************)

\* The length of the longest prefix of s made of ASCII digits.
RECURSIVE DigitPrefixLen(_)
DigitPrefixLen(s) ==
    IF s /= <<>> /\ is_ascii_digit(s[1]) THEN 1 + DigitPrefixLen(Tail(s)) ELSE 0

RECURSIVE DigitsVal(_)
DigitsVal(s) ==
    IF s = <<>> THEN 0 ELSE DigitsVal(SubSeq(s, 1, Len(s) - 1)) * 10 + DigitVal(s[Len(s)])

\* str::parse::<i64>: an optional sign, then one or more digits and nothing
\* else. (The tokens of the model are far shorter than the 19 digits at
\* which an i64 overflows, so the overflow error is out of their reach.)
parse_i64(s) ==
    LET signed == s /= <<>> /\ s[1] \in {"+", "-"}
        digits == IF signed THEN Tail(s) ELSE s
    IN IF digits = <<>> \/ DigitPrefixLen(digits) /= Len(digits)
       THEN Err("invalid digit found in string")
       ELSE Ok(IF signed /\ s[1] = "-" THEN 0 - DigitsVal(digits) ELSE DigitsVal(digits))

\* The exponent part of a float: e or E, an optional sign, digits.
ParseExp(s) ==
    IF s = <<>> THEN Ok(0)
    ELSE IF to_ascii_lowercase(s[1]) /= "e" THEN Err("invalid float literal")
    ELSE LET r == Tail(s)
             signed == r /= <<>> /\ r[1] \in {"+", "-"}
             digits == IF signed THEN Tail(r) ELSE r
         IN IF digits = <<>> \/ DigitPrefixLen(digits) /= Len(digits)
            THEN Err("invalid float literal")
            ELSE Ok(IF signed /\ r[1] = "-" THEN 0 - DigitsVal(digits) ELSE DigitsVal(digits))

\* str::parse::<f64>: Sign? ( inf | infinity | nan | Number ), with
\* Number ::= ( Digit+ | Digit+ . Digit* | Digit* . Digit+ ) Exp?
\* The value is [finite |-> FALSE] for inf and nan.
parse_f64(s) ==
    LET Body(neg, body) ==
            LET Whole(w) ==
                    LET Frac(dotted, f) ==
                            LET Exp(e) ==
                                    IF w + f = 0 \/ ~e.ok THEN Err("invalid float literal")
                                    ELSE Ok([finite |-> TRUE,
                                             num |-> VFloat(neg,
                                                            DigitsVal(SubSeq(body, 1, w) \o SubSeq(body, w + 2, w + 1 + f)),
                                                            e.val - f)])
                            IN Exp(ParseExp(SubSeq(body, w + f + (IF dotted THEN 2 ELSE 1), Len(body))))
                    IN IF w < Len(body) /\ body[w + 1] = "."
                       THEN Frac(TRUE, DigitPrefixLen(SubSeq(body, w + 2, Len(body))))
                       ELSE Frac(FALSE, 0)
            IN IF str_to_ascii_lowercase(body) \in {Str("inf"), Str("infinity"), Str("nan")}
               THEN Ok([finite |-> FALSE])
               ELSE Whole(DigitPrefixLen(body))
    IN IF s /= <<>> /\ s[1] \in {"+", "-"} THEN Body(s[1] = "-", Tail(s)) ELSE Body(FALSE, s)

(***************************************************************************)
(* serde_json::from_str, over text without escapes or control characters   *)
(***************************************************************************)

RECURSIVE SkipWs(_, _)
SkipWs(s, i) == IF i <= Len(s) /\ s[i] = " " THEN SkipWs(s, i + 1) ELSE i

JFail == [ok |-> FALSE, val |-> VNull, next |-> 0]

JOk(v, n) == [ok |-> TRUE, val |-> v, next |-> n]

JsonLiteral(s, i, word, v) ==
    IF i + Len(word) - 1 <= Len(s) /\ SubSeq(s, i, i + Len(word) - 1) = word
    THEN JOk(v, i + Len(word)) ELSE JFail

\* A number: -? ( 0 | [1-9][0-9]* ) ( . [0-9]+ )? ( [eE] [+-]? [0-9]+ )?
\* An integer without fraction or exponent is an integer Number, except
\* that -0 is the float -0.0; anything else is a float.
JsonFraction(s, k) ==
    LET Digits(f) ==
            IF f = 0 THEN [ok |-> FALSE, has |-> TRUE, digits |-> <<>>, next |-> k]
            ELSE [ok |-> TRUE, has |-> TRUE, digits |-> SubSeq(s, k + 1, k + f), next |-> k + 1 + f]
    IN IF k <= Len(s) /\ s[k] = "."
       THEN Digits(DigitPrefixLen(SubSeq(s, k + 1, Len(s))))
       ELSE [ok |-> TRUE, has |-> FALSE, digits |-> <<>>, next |-> k]

JsonExponent(s, k) ==
    LET At(start, negative) ==
            LET Digits(n) ==
                    IF n = 0 THEN [ok |-> FALSE, has |-> TRUE, exp |-> 0, next |-> k]
                    ELSE [ok |-> TRUE, has |-> TRUE,
                          exp |-> (IF negative THEN 0 - DigitsVal(SubSeq(s, start, start + n - 1))
                                   ELSE DigitsVal(SubSeq(s, start, start + n - 1))),
                          next |-> start + n]
            IN Digits(DigitPrefixLen(SubSeq(s, start, Len(s))))
    IN IF ~(k <= Len(s) /\ s[k] \in {"e", "E"}) THEN [ok |-> TRUE, has |-> FALSE, exp |-> 0, next |-> k]
       ELSE IF k + 1 <= Len(s) /\ s[k + 1] \in {"+", "-"} THEN At(k + 2, s[k + 1] = "-")
       ELSE At(k + 1, FALSE)

JsonNumber(s, i) ==
    LET Integer(neg, j) ==
            LET Whole(w, whole) ==
                    LET Frac(fr) ==
                            LET Exp(ex) ==
                                    IF ~ex.ok THEN JFail
                                    ELSE IF fr.has \/ ex.has
                                    THEN JOk(VFloat(neg, DigitsVal(SubSeq(s, j, j + w - 1) \o fr.digits),
                                                    ex.exp - Len(fr.digits)), ex.next)
                                    ELSE IF neg /\ whole = 0 THEN JOk(VFloat(TRUE, 0, 0), ex.next)
                                    ELSE JOk(VInt(IF neg THEN 0 - whole ELSE whole), ex.next)
                            IN IF ~fr.ok THEN JFail ELSE Exp(JsonExponent(s, fr.next))
                    IN IF w = 0 \/ (s[j] = "0" /\ w > 1) THEN JFail ELSE Frac(JsonFraction(s, j + w))
            IN Whole(DigitPrefixLen(SubSeq(s, j, Len(s))),
                     DigitsVal(SubSeq(s, j, j + DigitPrefixLen(SubSeq(s, j, Len(s))) - 1)))
    IN IF s[i] = "-" THEN Integer(TRUE, i + 1) ELSE Integer(FALSE, i)

\* A string: the text up to the next quote.
JsonString(s, i) ==
    LET ends == {q \in (i + 1)..Len(s) : s[q] = "\""}
        q == CHOOSE x \in ends : \A y \in ends : x <= y
    IN IF ends = {} THEN JFail ELSE JOk(VString(SubSeq(s, i + 1, q - 1)), q + 1)

RECURSIVE JsonValue(_, _)
RECURSIVE JsonElems(_, _, _)
RECURSIVE JsonMembers(_, _, _)

JsonValue(s, i) ==
    LET j == SkipWs(s, i)
    IN IF j > Len(s) THEN JFail
       ELSE CASE s[j] = "n" -> JsonLiteral(s, j, Str("null"), VNull)
              [] s[j] = "t" -> JsonLiteral(s, j, Str("true"), VBool(TRUE))
              [] s[j] = "f" -> JsonLiteral(s, j, Str("false"), VBool(FALSE))
              [] s[j] = "\"" -> JsonString(s, j)
              [] s[j] = "-" \/ is_ascii_digit(s[j]) -> JsonNumber(s, j)
              [] s[j] = "[" ->
                    LET k == SkipWs(s, j + 1)
                    IN IF k <= Len(s) /\ s[k] = "]" THEN JOk(VArray(<<>>), k + 1)
                       ELSE JsonElems(s, j + 1, <<>>)
              [] s[j] = "{" ->
                    LET k == SkipWs(s, j + 1)
                    IN IF k <= Len(s) /\ s[k] = "}" THEN JOk(VObject(EmptyMap), k + 1)
                       ELSE JsonMembers(s, j + 1, EmptyMap)
              [] OTHER -> JFail

\* The elements of an array after its opening bracket or a comma.
JsonElems(s, i, acc) ==
    LET Elem(v) ==
            LET After(k) ==
                    IF k > Len(s) THEN JFail
                    ELSE IF s[k] = "," THEN JsonElems(s, k + 1, Append(acc, v.val))
                    ELSE IF s[k] = "]" THEN JOk(VArray(Append(acc, v.val)), k + 1)
                    ELSE JFail
            IN IF ~v.ok THEN JFail ELSE After(SkipWs(s, v.next))
    IN Elem(JsonValue(s, i))

\* The members of an object after its opening brace or a comma; a repeated
\* name keeps its last value.
JsonMembers(s, i, acc) ==
    LET Name(k) ==
            LET Key(key) ==
                    LET Colon(c) ==
                            LET Member(v) ==
                                    LET After(d) ==
                                            IF d > Len(s) THEN JFail
                                            ELSE IF s[d] = ","
                                            THEN JsonMembers(s, d + 1, MapInsert(acc, key.val.s, v.val))
                                            ELSE IF s[d] = "}"
                                            THEN JOk(VObject(MapInsert(acc, key.val.s, v.val)), d + 1)
                                            ELSE JFail
                                    IN IF ~v.ok THEN JFail ELSE After(SkipWs(s, v.next))
                            IN IF c <= Len(s) /\ s[c] = ":" THEN Member(JsonValue(s, c + 1)) ELSE JFail
                    IN IF ~key.ok THEN JFail ELSE Colon(SkipWs(s, key.next))
            IN IF k <= Len(s) /\ s[k] = "\"" THEN Key(JsonString(s, k)) ELSE JFail
    IN Name(SkipWs(s, i))

\* One JSON document and nothing but whitespace after it.
serde_json_from_str(s) ==
    LET Document(r) == IF r.ok /\ SkipWs(s, r.next) > Len(s) THEN Ok(r.val) ELSE Err("invalid JSON")
    IN Document(JsonValue(s, 1))

(***************************************************************************)
(* The command tree (src/command_tree.rs)                                  *)
(***************************************************************************)

\* Option<T> is a sequence of at most one element.
None == <<>>

Some(x) == <<x>>

\* SchemaDef {kind, item}
SchemaDef(kind, item) == [kind |-> kind, item |-> item]

Scalar(kind) == SchemaDef(kind, None)

ArrayOf(item) == SchemaDef("array", Some(item))

\* NameNormalizer: one pass over the characters, with the text built so far
\* and whether the previous character was a lowercase letter or a digit.
RECURSIVE to_kebab_loop(_, _, _)
to_kebab_loop(value, out, prev_lower) ==
    IF value = <<>> THEN out
    ELSE LET ch == value[1]
         IN IF ch = "_" \/ ch = " "
            THEN to_kebab_loop(Tail(value),
                               IF ends_with(out, <<"-">>) THEN out ELSE Append(out, "-"),
                               FALSE)
            ELSE IF is_ascii_uppercase(ch)
            THEN to_kebab_loop(Tail(value),
                               (IF prev_lower THEN Append(out, "-") ELSE out) \o <<to_ascii_lowercase(ch)>>,
                               FALSE)
            ELSE to_kebab_loop(Tail(value), Append(out, ch),
                               is_ascii_lowercase(ch) \/ is_ascii_digit(ch))

\* A normalizer that leaves the hyphens at the ends.
to_kebab_untrimmed(value) == to_kebab_loop(value, <<>>, FALSE)

\* to_kebab: the pass, then the hyphens at the two ends trimmed.
to_kebab(value) == trim_matches(to_kebab_loop(value, <<>>, FALSE), "-")

\* ParamDef {name, flag, location, required, schema}
ParamDef(name, location, required, schema) ==
    [name |-> name, flag |-> to_kebab(name), location |-> location,
     required |-> required, schema |-> schema]

\* InputField {name, flag, required, schema}
InputField(name, required, schema) ==
    [name |-> name, flag |-> Str("input-") \o to_kebab(name),
     required |-> required, schema |-> schema]

\* BodyDef {required, content_type, schema, input_fields}
BodyDefOf(required, content_type, schema, input_fields) ==
    [required |-> required, content_type |-> content_type,
     schema |-> schema, input_fields |-> input_fields]

BodyDef(required, schema, input_fields) ==
    BodyDefOf(required, "application/json", schema, input_fields)

\* Operation {name, method, path, params, body}; summary and description
\* are help text only.
Operation(name, method, path, params, body) ==
    [name |-> name, method |-> method, path |-> path, params |-> params, body |-> body]

(***************************************************************************)
(* ValueCoercer (src/main.rs)                                              *)
(***************************************************************************)

parse_bool_lenient(value) ==
    IF str_to_ascii_lowercase(value) \in {Str("true"), Str("1"), Str("yes")} THEN Ok(TRUE) ELSE Ok(FALSE)

parse_bool(value) ==
    LET v == str_to_ascii_lowercase(value)
    IN IF v \in {Str("true"), Str("1"), Str("yes")} THEN Ok(TRUE)
       ELSE IF v \in {Str("false"), Str("0"), Str("no")} THEN Ok(FALSE)
       ELSE Err("invalid boolean")

parse_scalar_value(schema, value) ==
    LET Integer(r) == IF r.ok THEN Ok(VInt(r.val)) ELSE r
        Number(r) == IF ~r.ok THEN r ELSE IF r.val.finite THEN Ok(r.val.num) ELSE Ok(VNull)
        Boolean(r) == IF r.ok THEN Ok(VBool(r.val)) ELSE r
        Document(r) == IF r.ok THEN r ELSE Err("invalid JSON value")
    IN CASE schema.kind = "integer" -> Integer(parse_i64(value))
         [] schema.kind = "number" -> Number(parse_f64(value))
         [] schema.kind = "boolean" -> Boolean(parse_bool(value))
         [] schema.kind = "string" -> Ok(VString(value))
         [] schema.kind \in {"object", "array", "unknown"} -> Document(serde_json_from_str(value))
         [] OTHER -> Ok(VString(value))

\* The list is read in literal mode when it is one token whose text, after
\* leading whitespace, begins with [.
is_list_literal(values) ==
    Len(values) = 1 /\ starts_with(trim_start(values[1]), <<"[">>)

\* schema.item.as_deref().unwrap_or(schema)
item_schema_of(schema) == IF schema.item /= None THEN schema.item[1] ELSE schema

RECURSIVE parse_each_reversed(_, _, _)
parse_each_reversed(item_schema, values, out) ==
    LET Parsed(r) ==
            IF r.ok THEN parse_each_reversed(item_schema, Tail(values), <<r.val>> \o out) ELSE r
    IN IF values = <<>> THEN Ok(out) ELSE Parsed(parse_scalar_value(item_schema, values[1]))

\* Every token coerced in order; the first failure ends the loop.
RECURSIVE parse_each(_, _, _)
parse_each(item_schema, values, out) ==
    LET Parsed(r) == IF r.ok THEN parse_each(item_schema, Tail(values), Append(out, r.val)) ELSE r
    IN IF values = <<>> THEN Ok(out) ELSE Parsed(parse_scalar_value(item_schema, values[1]))

parse_list_value(schema, values) ==
    LET Literal(r) == IF r.ok THEN r ELSE Err("invalid JSON list")
        Collected(r) == IF r.ok THEN Ok(VArray(r.val)) ELSE r
    IN IF is_list_literal(values)
       THEN Literal(serde_json_from_str(values[1]))
       ELSE Collected(parse_each(item_schema_of(schema), values, <<>>))

\* The decimal text of an integer.
RECURSIVE NatToStr(_)
NatToStr(n) == IF n < 10 THEN <<Ascii[n + 17]>> ELSE Append(NatToStr(n \div 10), Ascii[(n % 10) + 17])

IntToStr(i) == IF i < 0 THEN <<"-">> \o NatToStr(0 - i) ELSE NatToStr(i)

\* A float or a composite value is written as JSON text by serde_json; that
\* text is kept as the value it writes.
value_to_query_string(value) ==
    CASE value.t = "string" -> value.s
      [] value.t = "int" -> IntToStr(value.i)
      [] value.t = "bool" -> IF value.b THEN Str("true") ELSE Str("false")
      [] value.t = "null" -> Str("null")
      [] OTHER -> <<[json |-> value]>>

parse_list_for_query(schema, values) ==
    LET Literal(r) ==
            IF ~r.ok THEN Err("invalid JSON list")
            ELSE IF r.val.t /= "array" THEN Err("expected JSON array")
            ELSE Ok([i \in 1..Len(r.val.a) |-> value_to_query_string(r.val.a[i])])
        Collected(r) ==
            IF r.ok THEN Ok([i \in 1..Len(r.val) |-> value_to_query_string(r.val[i])]) ELSE r
    IN IF is_list_literal(values)
       THEN Literal(serde_json_from_str(values[1]))
       ELSE Collected(parse_each(item_schema_of(schema), values, <<>>))

(***************************************************************************)
(* Bound arguments (clap::ArgMatches): a map from argument id to the       *)
(* values supplied for it, in order; an id that is unbound, or not an      *)
(* argument of the subcommand, has no value.                               *)
(***************************************************************************)

get_many(matches, id) ==
    IF id \in DOMAIN matches /\ matches[id] /= <<>> THEN Some(matches[id]) ELSE None

get_one(matches, id) ==
    IF id \in DOMAIN matches /\ matches[id] /= <<>> THEN Some(matches[id][1]) ELSE None

(***************************************************************************)
(* RequestBuilder (src/main.rs)                                            *)
(***************************************************************************)

\* build_url, first part: the base URL without trailing slashes, the base
\* path with a leading slash, joined unless the one already ends with the
\* other.
api_base_always_joined(base_url, base_path) ==
    LET base == trim_end_matches(base_url, "/")
        bp == trim(base_path)
    IN base \o (IF starts_with(bp, <<"/">>) THEN bp ELSE <<"/">> \o bp)

api_base_of(base_url, base_path) ==
    LET base == trim_end_matches(base_url, "/")
        trimmed == trim(base_path)
        bp == IF starts_with(trimmed, <<"/">>) THEN trimmed ELSE <<"/">> \o trimmed
    IN IF ends_with(base, bp) THEN base ELSE base \o bp

\* "{name}"
path_token(name) == <<"{">> \o name \o <<"}">>

\* build_url, second part: each path-located parameter, in order, replaces
\* its token by its percent-encoded value, or fails when it has no value.
RECURSIVE substitute_path_unencoded(_, _, _)
substitute_path_unencoded(path, params, matches) ==
    IF params = <<>> THEN Ok(path)
    ELSE IF params[1].location /= "path" THEN substitute_path_unencoded(path, Tail(params), matches)
    ELSE LET value == get_one(matches, params[1].name)
         IN IF value = None THEN Err("missing required param")
            ELSE substitute_path_unencoded(replace(path, path_token(params[1].name), value[1]),
                                           Tail(params), matches)

RECURSIVE substitute_path(_, _, _)
substitute_path(path, params, matches) ==
    IF params = <<>> THEN Ok(path)
    ELSE IF params[1].location /= "path" THEN substitute_path(path, Tail(params), matches)
    ELSE LET value == get_one(matches, params[1].name)
         IN IF value = None THEN Err("missing required param")
            ELSE substitute_path(replace(path, path_token(params[1].name), urlencoding_encode(value[1])),
                                 Tail(params), matches)

\* Url::parse: the text must begin with a scheme (a letter, then letters,
\* digits, +, - or ., then a colon); the characters a URL path cannot hold
\* are percent-encoded.
has_scheme(s) ==
    \E i \in 2..Len(s) :
        /\ s[i] = ":"
        /\ is_ascii_uppercase(s[1]) \/ is_ascii_lowercase(s[1])
        /\ \A j \in 1..(i - 1) : is_ascii_alphanumeric(s[j]) \/ s[j] \in {"+", "-", "."}

RECURSIVE url_path_encode(_)
url_path_encode(s) ==
    IF s = <<>> THEN <<>>
    ELSE (IF s[1] \in {" ", "\"", "<", ">", "{", "}"} THEN urlencoding_encode(<<s[1]>>) ELSE <<s[1]>>)
         \o url_path_encode(Tail(s))

\* The position of the first ch of s, or 0.
IndexOf(s, ch) ==
    IF \E i \in 1..Len(s) : s[i] = ch
    THEN CHOOSE i \in 1..Len(s) : s[i] = ch /\ \A j \in 1..(i - 1) : s[j] /= ch
    ELSE 0

\* The segments of a path between its slashes.
RECURSIVE SplitOn(_, _)
SplitOn(s, ch) ==
    IF IndexOf(s, ch) = 0 THEN <<s>>
    ELSE <<SubSeq(s, 1, IndexOf(s, ch) - 1)>> \o SplitOn(SubSeq(s, IndexOf(s, ch) + 1, Len(s)), ch)

is_single_dot(seg) == str_to_ascii_lowercase(seg) \in {Str("."), Str("%2e")}

is_double_dot(seg) ==
    str_to_ascii_lowercase(seg) \in {Str(".."), Str(".%2e"), Str("%2e."), Str("%2e%2e")}

\* Url::parse, path state: a "." segment is dropped and a ".." segment
\* removes the segment before it; either leaves an empty segment when it
\* is the last one.
RECURSIVE remove_dot_segments(_, _)
remove_dot_segments(segs, out) ==
    IF segs = <<>> THEN out
    ELSE IF is_double_dot(segs[1])
    THEN remove_dot_segments(Tail(segs),
             (IF out = <<>> THEN <<>> ELSE SubSeq(out, 1, Len(out) - 1))
             \o (IF Len(segs) = 1 THEN << <<>> >> ELSE <<>>))
    ELSE IF is_single_dot(segs[1])
    THEN remove_dot_segments(Tail(segs), out \o (IF Len(segs) = 1 THEN << <<>> >> ELSE <<>>))
    ELSE remove_dot_segments(Tail(segs), Append(out, segs[1]))

RECURSIVE join_path(_)
join_path(segs) == IF segs = <<>> THEN <<>> ELSE <<"/">> \o segs[1] \o join_path(Tail(segs))

\* The path of a URL with an authority: "/" when it is empty.
url_path(path) ==
    IF path = <<>> THEN <<"/">>
    ELSE join_path(remove_dot_segments(SplitOn(url_path_encode(Tail(path)), "/"), <<>>))

\* The text after "scheme://": the authority in lower case, then the path.
url_after_scheme(rest) ==
    IF IndexOf(rest, "/") = 0 THEN str_to_ascii_lowercase(rest) \o url_path(<<>>)
    ELSE str_to_ascii_lowercase(SubSeq(rest, 1, IndexOf(rest, "/") - 1))
         \o url_path(SubSeq(rest, IndexOf(rest, "/"), Len(rest)))

\* Url::parse of a text that holds no ? and no #. A text without a scheme
\* is refused; after "scheme://" come the authority and the path; any other
\* text after the scheme is an opaque path.
Url_parse(s) ==
    IF ~has_scheme(s) THEN Err("relative URL without a base")
    ELSE IF starts_with(SubSeq(s, IndexOf(s, ":") + 1, Len(s)), Str("//"))
    THEN Ok(str_to_ascii_lowercase(SubSeq(s, 1, IndexOf(s, ":"))) \o Str("//")
            \o url_after_scheme(SubSeq(s, IndexOf(s, ":") + 3, Len(s))))
    ELSE Ok(url_path_encode(s))

append_query_param(out, param, matches) ==
    LET Pushed(parsed) ==
            IF ~parsed.ok THEN parsed
            ELSE Ok(out \o [i \in 1..Len(parsed.val) |-> <<param.name, parsed.val[i]>>])
    IN IF param.schema.kind = "array"
       THEN IF get_many(matches, param.name) = None THEN Ok(out)
            ELSE Pushed(parse_list_for_query(param.schema, get_many(matches, param.name)[1]))
       ELSE IF get_one(matches, param.name) = None THEN Ok(out)
            ELSE Ok(Append(out, <<param.name, get_one(matches, param.name)[1]>>))

\* build_url, third part: the query pairs of the query-located parameters.
RECURSIVE query_pairs_of(_, _, _)
query_pairs_of(params, matches, out) ==
    LET Appended(r) == IF r.ok THEN query_pairs_of(Tail(params), matches, r.val) ELSE r
    IN IF params = <<>> THEN Ok(out)
       ELSE IF params[1].location /= "query" THEN query_pairs_of(Tail(params), matches, out)
       ELSE Appended(append_query_param(out, params[1], matches))

build_url(base_url, base_path, op, matches) ==
    LET Path(path) ==
            LET Parsed(url) ==
                    LET Query(query_pairs) ==
                            IF ~query_pairs.ok THEN query_pairs
                            ELSE Ok([href |-> url.val, query |-> query_pairs.val])
                    IN IF ~url.ok THEN Err("invalid N8N_BASE_URL")
                       ELSE Query(query_pairs_of(op.params, matches, <<>>))
            IN IF ~path.ok THEN path
               ELSE Parsed(Url_parse(api_base_of(base_url, base_path) \o path.val))
    IN Path(substitute_path(op.path, op.params, matches))

input_field_key(field) == Str("body__") \o field.name

\* The object of the bound input fields, or None when none is bound.
RECURSIVE build_body_fields(_, _, _)
build_body_fields(fields, matches, obj) ==
    LET Inserted(parsed) ==
            IF ~parsed.ok THEN parsed
            ELSE build_body_fields(Tail(fields), matches, MapInsert(obj, fields[1].name, parsed.val))
    IN IF fields = <<>> THEN Ok(obj)
       ELSE IF fields[1].schema.kind = "array"
       THEN IF get_many(matches, input_field_key(fields[1])) = None
            THEN build_body_fields(Tail(fields), matches, obj)
            ELSE Inserted(parse_list_value(fields[1].schema, get_many(matches, input_field_key(fields[1]))[1]))
       ELSE IF get_one(matches, input_field_key(fields[1])) = None
            THEN build_body_fields(Tail(fields), matches, obj)
            ELSE Inserted(parse_scalar_value(fields[1].schema, get_one(matches, input_field_key(fields[1]))[1]))

build_body_from_inputs(body, matches) ==
    LET Object(obj) ==
            IF ~obj.ok THEN obj
            ELSE IF DOMAIN obj.val = {} THEN Ok(None)
            ELSE Ok(Some(VObject(obj.val)))
    IN Object(build_body_fields(body.input_fields, matches, EmptyMap))

ArgBody == Str("body")

ArgBodyFile == Str("body-file")

\* build_body; `file` is what reading the body file gives: Ok(text) or Err.
\* The result is Ok(None), Ok(Some(value)) or Err; `from` names the source
\* that decided it.
body_required_or_absent(body) ==
    IF body.required THEN Err("request body required") ELSE Ok(None)

\* The body parsed from the text of --body.
body_from_raw(raw) ==
    LET Parsed(r) == IF r.ok THEN Ok(Some(r.val)) ELSE Err("invalid JSON body")
    IN Parsed(serde_json_from_str(raw))

\* The body parsed from the file of --body-file.
body_from_file(file) ==
    LET Parsed(r) == IF r.ok THEN Ok(Some(r.val)) ELSE Err("invalid JSON body file")
    IN IF ~file.ok THEN Err("failed to read body file") ELSE Parsed(serde_json_from_str(file.val))

\* The body assembled from the input fields, when the schema is an object
\* with input fields and one is bound; else the required-body check.
body_from_inputs_or_none(body, matches) ==
    LET Assembled(inputs) ==
            IF ~inputs.ok THEN inputs
            ELSE IF inputs.val /= None THEN inputs
            ELSE body_required_or_absent(body)
    IN IF body.schema.kind = "object" /\ body.input_fields /= <<>>
       THEN Assembled(build_body_from_inputs(body, matches))
       ELSE body_required_or_absent(body)

build_body_inputs_first(op, matches, file) ==
    LET Assembled(inputs) ==
            IF ~inputs.ok THEN inputs
            ELSE IF inputs.val /= None THEN inputs
            ELSE IF get_one(matches, ArgBody) /= None THEN body_from_raw(get_one(matches, ArgBody)[1])
            ELSE IF get_one(matches, ArgBodyFile) /= None THEN body_from_file(file)
            ELSE body_required_or_absent(op.body[1])
    IN IF op.body = None
       THEN IF get_one(matches, ArgBody) /= None \/ get_one(matches, ArgBodyFile) /= None
            THEN Err("request does not accept a body") ELSE Ok(None)
       ELSE IF get_one(matches, ArgBody) /= None /\ get_one(matches, ArgBodyFile) /= None
       THEN Err("use only one of --body or --body-file")
       ELSE Assembled(IF op.body[1].schema.kind = "object" /\ op.body[1].input_fields /= <<>>
                      THEN build_body_from_inputs(op.body[1], matches) ELSE Ok(None))

build_body(op, matches, file) ==
    IF op.body = None
    THEN IF get_one(matches, ArgBody) /= None \/ get_one(matches, ArgBodyFile) /= None
         THEN Err("request does not accept a body") ELSE Ok(None)
    ELSE IF get_one(matches, ArgBody) /= None /\ get_one(matches, ArgBodyFile) /= None
    THEN Err("use only one of --body or --body-file")
    ELSE IF get_one(matches, ArgBody) /= None THEN body_from_raw(get_one(matches, ArgBody)[1])
    ELSE IF get_one(matches, ArgBodyFile) /= None THEN body_from_file(file)
    ELSE body_from_inputs_or_none(op.body[1], matches)

(***************************************************************************)
(* Executor (src/main.rs)                                                  *)
(***************************************************************************)

\* StatusCode::is_success
is_success(status) == status >= 200 /\ status < 300

is_success_below_400(status) == status >= 200 /\ status < 400

\* send_request after the call returned: the HttpResponse built from the
\* status, the headers and the text of the response.
http_response(status, headers, text) ==
    LET Response(body_value) ==
            [ok |-> is_success(status), status |-> status, body |-> body_value,
             raw |-> VObject(MapInsert(MapInsert(MapInsert(EmptyMap,
                         Str("status"), VInt(status)),
                         Str("headers"), VObject(headers)),
                         Str("body"), body_value))]
        Parsed(r) == IF r.ok THEN r.val ELSE VString(text)
    IN IF trim(text) = <<>> THEN Response(VNull) ELSE Response(Parsed(serde_json_from_str(text)))

\* find_op
find_op(tree, res, op) ==
    LET rs == {i \in 1..Len(tree.resources) : tree.resources[i].name = res}
        r == tree.resources[CHOOSE i \in rs : \A j \in rs : i <= j]
        os == {i \in 1..Len(r.ops) : r.ops[i].name = op}
    IN IF rs = {} \/ os = {} THEN None
       ELSE Some(r.ops[CHOOSE i \in os : \A j \in os : i <= j])

(***************************************************************************)
(* The compiler (tools/gen_command_tree.rs)                                *)
(***************************************************************************)

\* The text of a sequence of characters.
RECURSIVE Text(_)
Text(chars) == IF chars = <<>> THEN "" ELSE chars[1] \o Text(Tail(chars))

\* Value::get with a key: the member of an object, if it has one.
value_get(v, key) == IF v.t = "object" /\ Str(key) \in DOMAIN v.o THEN Some(v.o[Str(key)]) ELSE None

\* v.get(key).and_then(Value::as_str), and the like.
get_str(v, key) ==
    IF value_get(v, key) /= None /\ value_get(v, key)[1].t = "string"
    THEN Some(value_get(v, key)[1].s) ELSE None

get_array(v, key) ==
    IF value_get(v, key) /= None /\ value_get(v, key)[1].t = "array"
    THEN Some(value_get(v, key)[1].a) ELSE None

get_object(v, key) ==
    IF value_get(v, key) /= None /\ value_get(v, key)[1].t = "object"
    THEN Some(value_get(v, key)[1].o) ELSE None

get_bool(v, key) ==
    IF value_get(v, key) /= None /\ value_get(v, key)[1].t = "bool"
    THEN Some(value_get(v, key)[1].b) ELSE None

\* .and_then(|a| a.first())
first_of(array) == IF array = None \/ array[1] = <<>> THEN None ELSE Some(array[1][1])

unwrap_or(option, default) == IF option = None THEN default ELSE option[1]

\* The keys of a BTreeMap in the order it iterates them.
sorted_keys(keys) ==
    [i \in 1..Cardinality(keys) |->
        CHOOSE k \in keys : Cardinality({other \in keys : StrLess(other, k)}) = i - 1]

\* str::trim_start_matches with a text to strip.
RECURSIVE trim_start_matches_str(_, _)
trim_start_matches_str(s, p) ==
    IF p /= <<>> /\ starts_with(s, p)
    THEN trim_start_matches_str(SubSeq(s, Len(p) + 1, Len(s)), p) ELSE s

\* resolve_ref, the walk: each part of the pointer is looked up in the node
\* reached so far; a part that is not there gives the referring node back.
RECURSIVE follow_pointer(_, _, _)
follow_pointer(current, parts, schema) ==
    IF parts = <<>> THEN current
    ELSE IF current.t /= "object" \/ parts[1] \notin DOMAIN current.o THEN schema
    ELSE follow_pointer(current.o[parts[1]], Tail(parts), schema)

\* resolve_ref: a node with a local "$ref" is replaced by the node that the
\* pointer names, once; any other node is returned as it is.
resolve_ref(doc, schema) ==
    IF get_str(schema, "$ref") = None THEN schema
    ELSE IF ~starts_with(get_str(schema, "$ref")[1], Str("#/")) THEN schema
    ELSE follow_pointer(doc,
             SplitOn(trim_start_matches_str(get_str(schema, "$ref")[1], Str("#/")), "/"),
             schema)

\* The depth of nested calls at which the stack of the process is used up.
StackLimit == 6

\* A call returns its value unless the process has used up its stack, which
\* kills it.
Returned(value) == [overflow |-> FALSE, val |-> value]

StackOverflow == [overflow |-> TRUE]

\* A resolver that infers the kind from properties and items before it
\* looks at the type.
RECURSIVE schema_def_at_inferring_first(_, _, _)
schema_def_at_inferring_first(doc, schema, depth) ==
    LET Items(s) ==
            LET Boxed(item) ==
                    IF item.overflow THEN item ELSE Returned(SchemaDef("array", Some(item.val)))
            IN IF value_get(s, "items") = None THEN Returned(SchemaDef("array", None))
               ELSE Boxed(schema_def_at_inferring_first(doc, value_get(s, "items")[1], depth + 1))
        Resolved(s) ==
            IF first_of(get_array(s, "allOf")) /= None
            THEN schema_def_at_inferring_first(doc, first_of(get_array(s, "allOf"))[1], depth + 1)
            ELSE IF first_of(get_array(s, "oneOf")) /= None
            THEN schema_def_at_inferring_first(doc, first_of(get_array(s, "oneOf"))[1], depth + 1)
            ELSE IF value_get(s, "properties") /= None THEN Returned(SchemaDef("object", None))
            ELSE IF value_get(s, "items") /= None THEN Items(s)
            ELSE IF get_str(s, "type") = Some(Str("object")) THEN Returned(SchemaDef("object", None))
            ELSE IF get_str(s, "type") = Some(Str("array")) THEN Items(s)
            ELSE IF get_str(s, "type") /= None
            THEN Returned(SchemaDef(Text(get_str(s, "type")[1]), None))
            ELSE Returned(SchemaDef("unknown", None))
    IN IF depth > StackLimit THEN StackOverflow ELSE Resolved(resolve_ref(doc, schema))

\* schema_def, at a depth of nested calls. The first member of allOf, else
\* of oneOf, decides; else the type does, with the items of an array
\* resolved in turn; without a type, properties make an object and items
\* an array.
RECURSIVE schema_def_at(_, _, _)
schema_def_at(doc, schema, depth) ==
    LET Items(s) ==
            LET Boxed(item) ==
                    IF item.overflow THEN item ELSE Returned(SchemaDef("array", Some(item.val)))
            IN IF value_get(s, "items") = None THEN Returned(SchemaDef("array", None))
               ELSE Boxed(schema_def_at(doc, value_get(s, "items")[1], depth + 1))
        Resolved(s) ==
            IF first_of(get_array(s, "allOf")) /= None
            THEN schema_def_at(doc, first_of(get_array(s, "allOf"))[1], depth + 1)
            ELSE IF first_of(get_array(s, "oneOf")) /= None
            THEN schema_def_at(doc, first_of(get_array(s, "oneOf"))[1], depth + 1)
            ELSE IF get_str(s, "type") = Some(Str("object")) THEN Returned(SchemaDef("object", None))
            ELSE IF get_str(s, "type") = Some(Str("array")) THEN Items(s)
            ELSE IF get_str(s, "type") /= None
            THEN Returned(SchemaDef(Text(get_str(s, "type")[1]), None))
            ELSE IF value_get(s, "properties") /= None THEN Returned(SchemaDef("object", None))
            ELSE IF value_get(s, "items") /= None THEN Items(s)
            ELSE Returned(SchemaDef("unknown", None))
    IN IF depth > StackLimit THEN StackOverflow ELSE Resolved(resolve_ref(doc, schema))

schema_def(doc, schema) == schema_def_at(doc, schema, 1)

\* parse_param: None for a parameter without a name.
parse_param(doc, param) ==
    LET Parsed(p) ==
            LET Def(schema) ==
                    IF schema.overflow THEN schema
                    ELSE Returned(Some(ParamDef(unwrap_or(get_str(p, "name"), <<>>),
                                                Text(unwrap_or(get_str(p, "in"), Str("query"))),
                                                unwrap_or(get_bool(p, "required"), FALSE),
                                                schema.val)))
            IN IF unwrap_or(get_str(p, "name"), <<>>) = <<>> THEN Returned(None)
               ELSE Def(schema_def(doc, unwrap_or(value_get(p, "schema"), VNull)))
    IN Parsed(resolve_ref(doc, param))

\* The order of the keys (location, name) of the parameter map.
ParamKeyLess(a, b) == StrLess(a[1], b[1]) \/ (a[1] = b[1] /\ StrLess(a[2], b[2]))

ParamKey(def) == <<Str(def.location), def.name>>

\* merge_params, one loop: every parameter that parses is inserted under
\* its key, over what the map holds there.
RECURSIVE insert_params(_, _, _)
insert_params(doc, params, map) ==
    LET Inserted(def) ==
            IF def.overflow THEN def
            ELSE IF def.val = None THEN insert_params(doc, Tail(params), map)
            ELSE insert_params(doc, Tail(params), MapInsert(map, ParamKey(def.val[1]), def.val[1]))
    IN IF params = <<>> THEN Returned(map) ELSE Inserted(parse_param(doc, params[1]))

\* BTreeMap::into_values: the values in the order of their keys.
into_values(map) ==
    [i \in 1..Cardinality(DOMAIN map) |->
        map[CHOOSE k \in DOMAIN map :
                Cardinality({other \in DOMAIN map : ParamKeyLess(other, k)}) = i - 1]]

merge_params_op_first(doc, path_params, op_params) ==
    LET Second(first) ==
            LET Values(merged) ==
                    IF merged.overflow THEN merged
                    ELSE Returned(into_values(merged.val))
            IN IF first.overflow THEN first ELSE Values(insert_params(doc, path_params, first.val))
    IN Second(insert_params(doc, op_params, EmptyMap))

\* merge_params: the path-level parameters, then those of the operation.
merge_params(doc, path_params, op_params) ==
    LET Second(first) ==
            LET Values(merged) ==
                    IF merged.overflow THEN merged
                    ELSE Returned(into_values(merged.val))
            IN IF first.overflow THEN first ELSE Values(insert_params(doc, op_params, first.val))
    IN Second(insert_params(doc, path_params, EmptyMap))

\* Vec::sort_by on the names: a stable sort.
RECURSIVE insert_by_name(_, _)
insert_by_name(sorted, x) ==
    IF sorted = <<>> THEN <<x>>
    ELSE IF StrLess(x.name, sorted[Len(sorted)].name)
    THEN Append(insert_by_name(SubSeq(sorted, 1, Len(sorted) - 1), x), sorted[Len(sorted)])
    ELSE Append(sorted, x)

RECURSIVE sort_by_name(_)
sort_by_name(items) ==
    IF items = <<>> THEN <<>>
    ELSE insert_by_name(sort_by_name(SubSeq(items, 1, Len(items) - 1)), items[Len(items)])

\* input_fields_from_schema: a field for every property, in the order of
\* the names.
RECURSIVE fields_of(_, _, _, _)
fields_of(doc, properties, required, names) ==
    LET Field(schema) ==
            LET Rest(fields) ==
                    IF fields.overflow THEN fields
                    ELSE Returned(<<InputField(names[1], names[1] \in required, schema.val)>>
                                  \o fields.val)
            IN IF schema.overflow THEN schema
               ELSE Rest(fields_of(doc, properties, required, Tail(names)))
    IN IF names = <<>> THEN Returned(<<>>) ELSE Field(schema_def(doc, properties[names[1]]))

\* The strings of the "required" array of a schema.
required_names(schema) ==
    IF get_array(schema, "required") = None THEN {}
    ELSE {get_array(schema, "required")[1][i].s :
             i \in {j \in 1..Len(get_array(schema, "required")[1]) :
                        get_array(schema, "required")[1][j].t = "string"}}

input_fields_from_schema(doc, schema) ==
    LET Fields(s) ==
            LET Sorted(fields) ==
                    IF fields.overflow THEN fields ELSE Returned(sort_by_name(fields.val))
            IN IF get_object(s, "properties") = None THEN Returned(<<>>)
               ELSE Sorted(fields_of(doc, get_object(s, "properties")[1], required_names(s),
                                     sorted_keys(DOMAIN get_object(s, "properties")[1])))
    IN Fields(resolve_ref(doc, schema))

\* parse_request_body, once the body has a content map: the schema of
\* application/json, else of the first content type.
body_of_content(doc, required, content) ==
    LET Typed(content_type) ==
            LET Body(schema) ==
                    LET Def(def) ==
                            LET WithFields(fields) ==
                                    IF fields.overflow THEN fields
                                    ELSE Returned(Some(BodyDefOf(required, Text(content_type),
                                                                 def.val, fields.val)))
                            IN IF def.overflow THEN def
                               ELSE IF def.val.kind = "object"
                               THEN WithFields(input_fields_from_schema(doc, schema))
                               ELSE WithFields(Returned(<<>>))
                    IN Def(schema_def(doc, schema))
            IN Body(unwrap_or(value_get(content[content_type], "schema"), VNull))
    IN IF Str("application/json") \in DOMAIN content THEN Typed(Str("application/json"))
       ELSE IF DOMAIN content = {} THEN Returned(None)
       ELSE Typed(sorted_keys(DOMAIN content)[1])

parse_request_body(doc, request_body) ==
    LET Parsed(body) ==
            IF get_object(body, "content") = None THEN Returned(None)
            ELSE body_of_content(doc, unwrap_or(get_bool(body, "required"), FALSE),
                                 get_object(body, "content")[1])
    IN IF request_body = None THEN Returned(None) ELSE Parsed(resolve_ref(doc, request_body[1]))

Methods == <<"get", "post", "put", "patch", "delete">>

\* main: the resource of an operation is its first tag, "default" without
\* one that is a string.
resource_of(op_obj) ==
    LET Tag(first) ==
            IF first /= None /\ first[1].t = "string" THEN first[1].s ELSE Str("default")
    IN to_kebab(Tag(first_of(get_array(op_obj, "tags"))))

\* main: the name of an operation is its operationId, else its
\* x-eov-operation-id, else "call".
name_of(op_obj) ==
    to_kebab(IF get_str(op_obj, "operationId") /= None THEN get_str(op_obj, "operationId")[1]
             ELSE unwrap_or(get_str(op_obj, "x-eov-operation-id"), Str("call")))

\* main, the body of the loop: the Operation of a method of a path item.
operation_of(doc, path, item, method, op_obj) ==
    LET Params(params) ==
            LET Body(body) ==
                    IF body.overflow THEN body
                    ELSE Returned(Operation(name_of(op_obj), Text(to_uppercase(Str(method))), path,
                                            params.val, body.val))
            IN IF params.overflow THEN params
               ELSE Body(parse_request_body(doc, value_get(op_obj, "requestBody")))
    IN Params(merge_params(doc, unwrap_or(get_array(item, "parameters"), <<>>),
                           unwrap_or(get_array(op_obj, "parameters"), <<>>)))

\* resources.entry(resource).or_default().push(op)
push_op(by_resource, resource, operation) ==
    MapInsert(by_resource, resource,
              Append(IF resource \in DOMAIN by_resource THEN by_resource[resource] ELSE <<>>,
                     operation))

\* main: the (path, method) pairs in the order the loops visit them.
work_of(paths) ==
    [i \in 1..(Cardinality(DOMAIN paths) * Len(Methods)) |->
        <<sorted_keys(DOMAIN paths)[((i - 1) \div Len(Methods)) + 1],
          Methods[((i - 1) % Len(Methods)) + 1]>>]

\* main: the version and the base path read from the document.
version_of(doc) ==
    IF value_get(doc, "info") = None THEN Str("0")
    ELSE unwrap_or(get_str(value_get(doc, "info")[1], "version"), Str("0"))

base_path_of(doc) ==
    IF first_of(get_array(doc, "servers")) = None THEN Str("/api/v1")
    ELSE unwrap_or(get_str(first_of(get_array(doc, "servers"))[1], "url"), Str("/api/v1"))

\* main: the tree of the resources in the order of their names, each with
\* its operations sorted by name.
tree_of(doc, by_resource) ==
    [version |-> version_of(doc), base_path |-> base_path_of(doc),
     resources |-> [i \in 1..Cardinality(DOMAIN by_resource) |->
                       [name |-> sorted_keys(DOMAIN by_resource)[i],
                        ops |-> sort_by_name(by_resource[sorted_keys(DOMAIN by_resource)[i]])]]]

\* Notation for documents: an object of the pairs <<key, value>>, a string
\* and a local reference.
JObj(pairs) ==
    VObject([k \in {Str(pairs[i][1]) : i \in 1..Len(pairs)} |->
                pairs[CHOOSE i \in 1..Len(pairs) : Str(pairs[i][1]) = k][2]])

JStr(text) == VString(Str(text))

JRef(pointer) == JObj(<< <<"$ref", JStr(pointer)>> >>)

JType(name) == JObj(<< <<"type", JStr(name)>> >>)

(***************************************************************************)
(* The embedded command tree of the runs that are checked                  *)
(***************************************************************************)

WorkflowOps ==
    << Operation(Str("create"), "POST", Str("/workflows"), <<>>,
           Some(BodyDef(TRUE, Scalar("object"),
                <<InputField(Str("active"), FALSE, Scalar("boolean")),
                  InputField(Str("name"), TRUE, Scalar("string")),
                  InputField(Str("nodes"), FALSE, ArrayOf(Scalar("integer")))>>))),
       Operation(Str("get"), "GET", Str("/workflows/{id}"),
           <<ParamDef(Str("id"), "path", TRUE, Scalar("integer"))>>, None),
       Operation(Str("list"), "GET", Str("/workflows"),
           <<ParamDef(Str("active"), "query", FALSE, Scalar("boolean")),
             ParamDef(Str("ids"), "query", FALSE, ArrayOf(Scalar("integer"))),
             ParamDef(Str("limit"), "query", FALSE, Scalar("integer"))>>, None),
       Operation(Str("update"), "PUT", Str("/workflows/{id}"),
           <<ParamDef(Str("id"), "path", FALSE, Scalar("integer"))>>,
           Some(BodyDef(FALSE, Scalar("object"),
                <<InputField(Str("count"), FALSE, Scalar("integer")),
                  InputField(Str("ratio"), FALSE, Scalar("number"))>>))) >>

ExecutionOps ==
    << Operation(Str("retry"), "POST", Str("/executions/{id}/retry"),
           <<ParamDef(Str("id"), "query", FALSE, Scalar("string"))>>,
           Some(BodyDef(FALSE, Scalar("unknown"), <<>>))),
       Operation(Str("search"), "GET", Str("/executions"),
           <<ParamDef(Str("body"), "query", FALSE, Scalar("string"))>>,
           None) >>

TreeWith(base_path) ==
    [version |-> Str("1.1.1"), base_path |-> base_path,
     resources |-> << [name |-> Str("execution"), ops |-> ExecutionOps],
                      [name |-> Str("workflow"), ops |-> WorkflowOps] >>]

Tree == TreeWith(Str("/api/v1"))

(***************************************************************************)
(* One run of the process (run, src/main.rs)                               *)
(***************************************************************************)

VARIABLES
    pc,         \* where the run is: start, matched, env, selected, url, body,
                \* response, written, exited
    tree,       \* the command tree loaded at start
    cmd,        \* the subcommand chosen on the command line
    matches,    \* the bound arguments of the operation's subcommand
    pretty,     \* --pretty
    raw,        \* --raw
    api_key,    \* N8N_API_KEY
    base_url,   \* N8N_BASE_URL
    op,         \* the operation found in the tree
    url,        \* the URL built for the request
    body,       \* the body built for the request
    response,   \* the HttpResponse
    stdout,     \* what was written to standard output
    stderr,     \* what was written to standard error
    exit_code,  \* the exit status, once the process has exited
    requests    \* the number of HTTP requests issued

\* Two invocations that supply the same list, for comparison.
VARIABLES
    list_tokens,    \* the tokens t1..tn
    list_separate,  \* the value of the list supplied as n flag values
    list_literal    \* the value of the list supplied as one JSON literal

\* A run of the compiler.
VARIABLES
    doc,        \* the specification document
    c_pc,       \* where the compiler is: start, ops, done, failed, stack_overflow
    work,       \* the (path, method) pairs still to visit, in order
    resources,  \* the operations pushed so far, by resource name
    out_tree    \* the command tree written, once it is

\* Single calls of the compiler's functions.
VARIABLES
    r_schema,   \* the schema node given to schema_def
    r_def,      \* what schema_def returned for it, once it has
    k_value,    \* the identifier given to to_kebab
    k_once,     \* to_kebab of the identifier, once it is computed
    k_twice     \* to_kebab of that, once it is computed

runVars == <<pc, tree, cmd, matches, pretty, raw, api_key, base_url, op, url, body,
             response, stdout, stderr, exit_code, requests>>

coerceVars == <<list_tokens, list_separate, list_literal>>

callVars == <<r_schema, r_def, k_value, k_once, k_twice>>

compileVars == <<doc, c_pc, work, resources, out_tree, callVars>>

vars == <<runVars, coerceVars, compileVars>>

\* What a run of the process leaves alone.
NotRun == <<coerceVars, compileVars>>

CallIdle ==
    /\ r_schema = VNull
    /\ r_def = None
    /\ k_value = <<>>
    /\ k_once = None
    /\ k_twice = None

CompileIdle ==
    /\ doc = VNull
    /\ c_pc = "start"
    /\ work = <<>>
    /\ resources = EmptyMap
    /\ out_tree = None
    /\ CallIdle

CoerceIdle ==
    /\ list_tokens = <<>>
    /\ list_separate = None
    /\ list_literal = None

\* The tokens tried for an argument of a schema in the full run.
RunCandidates(schema) ==
    CASE schema.kind = "integer" -> {<<Str("42")>>, <<Str("abc")>>}
      [] schema.kind = "number" -> {<<Str("1.5")>>, <<Str("x")>>, <<Str("nan")>>}
      [] schema.kind = "boolean" -> {<<Str("yes")>>, <<Str("maybe")>>}
      [] schema.kind = "string" -> {<<Str("a b")>>}
      [] schema.kind = "array" -> {<<Str("1"), Str("2")>>, <<Str("[1,2]")>>, <<Str("1"), Str("x")>>}
      [] OTHER -> {<<Str("{}")>>}

BodyTexts == {Str("{\"name\":\"x\"}"), Str("{bad")}

BodyFilePaths == {Str("b.json")}

\* What reading a body file gives.
FileReads == {Err("no such file")} \cup {Ok(t) : t \in BodyTexts}

Unbound == <<>>

\* The arguments registered for an operation's subcommand (build_cli), each
\* with the values that may be bound to it; clap refuses a required
\* parameter left unbound.
ParamArgs(params, C(_)) ==
    [i \in 1..Len(params) |->
        [id |-> params[i].name,
         cands |-> C(params[i].schema) \cup (IF params[i].required THEN {} ELSE {Unbound})]]

FieldArgs(fields, C(_)) ==
    [i \in 1..Len(fields) |->
        [id |-> input_field_key(fields[i]), cands |-> C(fields[i].schema) \cup {Unbound}]]

ArgSpecs(o, C(_)) ==
    ParamArgs(o.params, C)
    \o (IF o.body = None THEN <<>>
        ELSE <<[id |-> ArgBody, cands |-> {<<t>> : t \in BodyTexts} \cup {Unbound}],
               [id |-> ArgBodyFile, cands |-> {<<f>> : f \in BodyFilePaths} \cup {Unbound}]>>
             \o FieldArgs(o.body[1].input_fields, C))

\* Every binding of the arguments: one candidate for each.
RECURSIVE ArgBindings(_, _)
ArgBindings(args, acc) ==
    IF args = <<>> THEN {acc}
    ELSE UNION {ArgBindings(Tail(args), MapInsert(acc, args[1].id, v)) : v \in args[1].cands}

NoMatches == [k \in {} |-> <<>>]

\* The (resource, operation) subcommands clap accepts: those of the tree.
TreeCalls(t) ==
    UNION {{[res |-> t.resources[i].name, op |-> t.resources[i].ops[j].name] :
                j \in 1..Len(t.resources[i].ops)} : i \in 1..Len(t.resources)}

\* The names given to `describe`, which clap does not check.
DescribeNames == {Str("workflow"), Str("get"), Str("nosuch")}

Command(sub, json, res, o) == [sub |-> sub, json |-> json, res |-> res, op |-> o]

RunStart(t) ==
    /\ pc = "start"
    /\ tree = t
    /\ cmd = None
    /\ matches = NoMatches
    /\ pretty = FALSE
    /\ raw = FALSE
    /\ api_key = None
    /\ base_url = None
    /\ op = None
    /\ url = None
    /\ body = None
    /\ response = None
    /\ stdout = <<>>
    /\ stderr = <<>>
    /\ exit_code = None
    /\ requests = 0

Init == RunStart(Tree) /\ CoerceIdle /\ CompileIdle

\* The process ends with this status.
Exit(code) ==
    /\ pc' = "exited"
    /\ exit_code' = Some(code)

\* main: an error returned by run is printed and the process exits with 1.
Fail(msg) ==
    /\ stderr' = Append(stderr, msg)
    /\ Exit(1)

\* write_stdout_line: the text, then the newline; either write can fail,
\* with a broken pipe or with another error.
WriteOutcomes == {"ok", "pipe_at_text", "pipe_at_newline", "io_at_text", "io_at_newline"}

Written(out, text, outcome) ==
    CASE outcome = "ok" -> Append(out, [text |-> text, newline |-> TRUE])
      [] outcome \in {"pipe_at_newline", "io_at_newline"} -> Append(out, [text |-> text, newline |-> FALSE])
      [] OTHER -> out

\* Several lines written in turn: the lines before the n-th are written
\* whole, and the n-th (if any) meets `outcome`.
RECURSIVE WrittenLines(_, _, _, _)
WrittenLines(out, lines, n, outcome) ==
    IF lines = <<>> THEN out
    ELSE IF n = 1 THEN Written(out, lines[1], outcome)
    ELSE WrittenLines(Written(out, lines[1], "ok"), Tail(lines), n - 1, outcome)

\* The end of a handler that wrote `lines`: all written and Ok, or the
\* first failing write ends it: a broken pipe exits with 0, another error
\* is returned to main.
WriteAndReturn(lines) ==
    \/ /\ stdout' = WrittenLines(stdout, lines, Len(lines) + 1, "ok")
       /\ stderr' = stderr
       /\ Exit(0)
    \/ \E n \in 1..Len(lines), outcome \in WriteOutcomes \ {"ok"} :
          /\ stdout' = WrittenLines(stdout, lines, n, outcome)
          /\ IF outcome \in {"pipe_at_text", "pipe_at_newline"}
             THEN stderr' = stderr /\ Exit(0)
             ELSE Fail("write error")

\* cli.get_matches(): the command line is parsed into a subcommand, its
\* bound arguments and the global flags.
GetMatches ==
    /\ pc = "start"
    /\ UNCHANGED NotRun
    /\ pc' = "matched"
    /\ \E p \in BOOLEAN, r \in BOOLEAN : pretty' = p /\ raw' = r
    /\ \/ \E json \in BOOLEAN, sub \in {"list", "tree"} :
             /\ cmd' = Some(Command(sub, json, <<>>, <<>>))
             /\ matches' = NoMatches
       \/ \E json \in BOOLEAN, res \in DescribeNames, o \in DescribeNames :
             /\ cmd' = Some(Command("describe", json, res, o))
             /\ matches' = NoMatches
       \/ \E c \in TreeCalls(tree) :
             /\ cmd' = Some(Command("call", FALSE, c.res, c.op))
             /\ matches' \in ArgBindings(ArgSpecs(find_op(tree, c.res, c.op)[1], RunCandidates), NoMatches)
    /\ UNCHANGED <<tree, api_key, base_url, op, url, body, response, stdout, stderr, exit_code, requests>>

\* cli.get_matches() refusing the command line (an unknown subcommand or
\* flag, a required parameter left out): clap reports it and exits with 2.
UsageError ==
    /\ pc = "start"
    /\ UNCHANGED NotRun
    /\ stderr' = Append(stderr, "usage")
    /\ Exit(2)
    /\ UNCHANGED <<tree, cmd, matches, pretty, raw, api_key, base_url, op, url, body, response, stdout, requests>>

\* handle_list's lines: each resource's name, then its operations' names.
RECURSIVE list_lines(_)
list_lines(rs) ==
    IF rs = <<>> THEN <<>>
    ELSE <<rs[1].name>>
         \o [j \in 1..Len(rs[1].ops) |-> Str("  ") \o rs[1].ops[j].name]
         \o list_lines(Tail(rs))

\* handle_describe's lines for an operation (the model's operations carry
\* no summary).
describe_lines(resource, o) ==
    <<resource \o Str(" ") \o o.name,
      Str("  method: ") \o Str(o.method),
      Str("  path: ") \o o.path>>
    \o (IF o.params = <<>> THEN <<>>
        ELSE <<Str("  params:")>>
             \o [k \in 1..Len(o.params) |->
                    Str("    --") \o o.params[k].flag \o Str("  ") \o Str(o.params[k].schema.kind)
                    \o Str(" (") \o Str(o.params[k].location) \o Str(")")])
    \o (IF o.body = None THEN <<>>
        ELSE <<Str("  body: ") \o Str(o.body[1].content_type)>>
             \o (IF o.body[1].input_fields = <<>> THEN <<>>
                 ELSE <<Str("  body fields:")>>
                      \o [k \in 1..Len(o.body[1].input_fields) |->
                             Str("    --") \o o.body[1].input_fields[k].flag \o Str("  ")
                             \o Str(o.body[1].input_fields[k].schema.kind)]))

\* serde_json::to_string / to_string_pretty: the text written is kept as
\* the value it writes and the layout it is written in.
Json(value, layout) == [json |-> value, layout |-> layout]

RunLocals == <<tree, cmd, matches, pretty, raw, api_key, base_url, op, url, body, response>>

HandleList ==
    /\ pc = "matched"
    /\ UNCHANGED NotRun
    /\ cmd[1].sub = "list"
    /\ IF cmd[1].json
       THEN WriteAndReturn(<<Json([r \in 1..Len(tree.resources) |->
                                     [resource |-> tree.resources[r].name,
                                      ops |-> [j \in 1..Len(tree.resources[r].ops) |->
                                                  tree.resources[r].ops[j].name]]], "pretty")>>)
       ELSE WriteAndReturn(list_lines(tree.resources))
    /\ UNCHANGED <<RunLocals, requests>>

HandleDescribe ==
    /\ pc = "matched"
    /\ UNCHANGED NotRun
    /\ cmd[1].sub = "describe"
    /\ \E found \in {find_op(tree, cmd[1].res, cmd[1].op)} :
          IF found = None THEN Fail("unknown command") /\ stdout' = stdout
          ELSE IF cmd[1].json THEN WriteAndReturn(<<Json(found[1], "pretty")>>)
          ELSE WriteAndReturn(describe_lines(cmd[1].res, found[1]))
    /\ UNCHANGED <<RunLocals, requests>>

HandleTree ==
    /\ pc = "matched"
    /\ UNCHANGED NotRun
    /\ cmd[1].sub = "tree"
    /\ IF cmd[1].json
       THEN WriteAndReturn(<<Json(tree, "pretty")>>)
       ELSE WriteAndReturn(<<Str("Run with --json for machine-readable output.")>>)
    /\ UNCHANGED <<RunLocals, requests>>

ApiKeys == {Str("k3y")}

BaseUrls == {Str("https://h"), Str("h.local")}

\* env::var("N8N_API_KEY") and env::var("N8N_BASE_URL"), in that order.
ReadEnv ==
    /\ pc = "matched"
    /\ UNCHANGED NotRun
    /\ cmd[1].sub = "call"
    /\ \E k \in {None} \cup {Some(x) : x \in ApiKeys}, u \in {None} \cup {Some(x) : x \in BaseUrls} :
          IF k = None THEN Fail("N8N_API_KEY missing") /\ UNCHANGED <<api_key, base_url>>
          ELSE IF u = None THEN Fail("N8N_BASE_URL missing") /\ api_key' = k /\ UNCHANGED base_url
          ELSE /\ api_key' = k
               /\ base_url' = u
               /\ pc' = "env"
               /\ UNCHANGED <<stderr, exit_code>>
    /\ UNCHANGED <<tree, cmd, matches, pretty, raw, op, url, body, response, stdout, requests>>

\* The resource and operation subcommands are looked up in the tree.
SelectOp ==
    /\ pc = "env"
    /\ UNCHANGED NotRun
    /\ \E found \in {find_op(tree, cmd[1].res, cmd[1].op)} :
          IF found = None THEN Fail("unknown command") /\ UNCHANGED op
          ELSE op' = found /\ pc' = "selected" /\ UNCHANGED <<stderr, exit_code>>
    /\ UNCHANGED <<tree, cmd, matches, pretty, raw, api_key, base_url, url, body, response, stdout, requests>>

BuildUrl ==
    /\ pc = "selected"
    /\ UNCHANGED NotRun
    /\ \E built \in {build_url(base_url[1], tree.base_path, op[1], matches)} :
          IF ~built.ok THEN Fail(built.err) /\ UNCHANGED url
          ELSE url' = Some(built.val) /\ pc' = "url" /\ UNCHANGED <<stderr, exit_code>>
    /\ UNCHANGED <<tree, cmd, matches, pretty, raw, api_key, base_url, op, body, response, stdout, requests>>

\* body is Some(Option<Value>) once built.
BuildBody ==
    /\ pc = "url"
    /\ UNCHANGED NotRun
    /\ \E file \in FileReads :
          \E built \in {build_body(op[1], matches, file)} :
             IF ~built.ok THEN Fail(built.err) /\ UNCHANGED body
             ELSE body' = Some(built.val) /\ pc' = "body" /\ UNCHANGED <<stderr, exit_code>>
    /\ UNCHANGED <<tree, cmd, matches, pretty, raw, api_key, base_url, op, url, response, stdout, requests>>

Statuses == {200, 204, 404, 500}

ResponseTexts == {<<>>, Str("{\"name\":\"x\"}"), Str("oops")}

ResponseHeaders == {MapInsert(EmptyMap, Str("content-type"), VString(Str("application/json")))}

\* send_request: the one HTTP call. It fails (no connection, timeout) or
\* returns a response; the URL and the body are moved into the call.
SendRequestRetrying ==
    /\ pc = "body"
    /\ UNCHANGED NotRun
    /\ requests' = requests + 1
    /\ \/ UNCHANGED <<pc, url, body, response, stderr, exit_code>>
       \/ \E status \in Statuses, headers \in ResponseHeaders, text \in ResponseTexts :
             /\ response' = Some(http_response(status, headers, text))
             /\ url' = None
             /\ body' = None
             /\ pc' = "response"
             /\ UNCHANGED <<stderr, exit_code>>
    /\ requests < 3
    /\ UNCHANGED <<tree, cmd, matches, pretty, raw, api_key, base_url, op, stdout>>

SendRequest ==
    /\ pc = "body"
    /\ UNCHANGED NotRun
    /\ requests' = requests + 1
    /\ \/ Fail("transport error") /\ UNCHANGED <<url, body, response>>
       \/ \E status \in Statuses, headers \in ResponseHeaders, text \in ResponseTexts :
             /\ response' = Some(http_response(status, headers, text))
             /\ url' = None
             /\ body' = None
             /\ pc' = "response"
             /\ UNCHANGED <<stderr, exit_code>>
    /\ UNCHANGED <<tree, cmd, matches, pretty, raw, api_key, base_url, op, stdout>>

\* The view of the response that is printed.
output_view(resp, as_raw) == IF as_raw THEN resp.raw ELSE resp.body

output_line(resp, as_raw, as_pretty) ==
    Json(output_view(resp, as_raw), IF as_pretty THEN "pretty" ELSE "compact")

\* The output is written: a broken pipe exits with 0 at once, another write
\* error is returned to main.
WriteOutput ==
    /\ pc = "response"
    /\ UNCHANGED NotRun
    /\ \E outcome \in WriteOutcomes :
          /\ stdout' = Written(stdout, output_line(response[1], raw, pretty), outcome)
          /\ CASE outcome = "ok" -> pc' = "written" /\ UNCHANGED <<stderr, exit_code>>
               [] outcome \in {"pipe_at_text", "pipe_at_newline"} -> stderr' = stderr /\ Exit(0)
               [] OTHER -> Fail("write error")
    /\ UNCHANGED <<RunLocals, requests>>

\* After the output: a response that is not ok is returned as an error.
FinishIgnoringStatus ==
    /\ pc = "written"
    /\ UNCHANGED NotRun
    /\ stderr' = stderr /\ Exit(0)
    /\ UNCHANGED <<RunLocals, stdout, requests>>

Finish ==
    /\ pc = "written"
    /\ UNCHANGED NotRun
    /\ IF ~response[1].ok THEN Fail("http error") ELSE stderr' = stderr /\ Exit(0)
    /\ UNCHANGED <<RunLocals, stdout, requests>>

Next ==
    \/ GetMatches
    \/ UsageError
    \/ HandleList
    \/ HandleDescribe
    \/ HandleTree
    \/ ReadEnv
    \/ SelectOp
    \/ BuildUrl
    \/ BuildBody
    \/ SendRequest
    \/ WriteOutput
    \/ Finish

Spec == Init /\ [][Next]_vars

(***************************************************************************)
(* Properties of a run                                                     *)
(***************************************************************************)

\* The line the run prints for the response it holds.
ResponseLine == [text |-> output_line(response[1], raw, pretty), newline |-> TRUE]

RunEnded == pc = "exited"

\* The errors that can follow the HTTP call.
AfterRequestErrors == {"transport error", "http error", "write error"}

\* C5: a run issues at most one HTTP request and never a second one after a
\* failure; the request is issued only by a call that found its key, its
\* base URL and its operation and built its URL and body, so that a run with
\* a configuration, selection or construction error, and a run of list,
\* describe or tree, issues none.
C5_AtMostOneRequest ==
    /\ requests \in {0, 1}
    /\ requests = 1 =>
          /\ cmd /= None /\ cmd[1].sub = "call"
          /\ api_key /= None /\ base_url /= None /\ op /= None
          /\ \A i \in 1..Len(stderr) : stderr[i] \in AfterRequestErrors
    /\ (cmd /= None /\ cmd[1].sub \in {"list", "describe", "tree"}) => requests = 0
    /\ (pc \in {"start", "matched", "env", "selected", "url", "body"}) => requests = 0

\* A request that failed in transport ended the run, without a second one.
C5_Witness ==
    /\ RunEnded
    /\ requests = 1
    /\ stderr = <<"transport error">>
    /\ exit_code = Some(1)

\* C3 as stated: whenever a response was received, the output was written
\* first, a status outside 2xx ends the run with the HTTP failure reported
\* and a status that is not 0, and a 2xx status ends it with status 0.
C3_OutputThenStatus ==
    (RunEnded /\ response /= None) =>
        /\ stdout = <<ResponseLine>>
        /\ response[1].ok => exit_code = Some(0) /\ stderr = <<>>
        /\ ~response[1].ok => exit_code /= Some(0) /\ stderr = <<"http error">>

\* C3, amended: the HTTP failure is reported only after the whole output
\* line was written; a run whose write succeeded ends with 0 for a 2xx
\* status and with the failure reported and status 1 for another status; a
\* run whose write failed ends with 0 on a broken pipe, whatever the HTTP
\* status, and with a write error and status 1 otherwise.
C3_OutputThenStatusWhenWritten ==
    /\ (\E i \in 1..Len(stderr) : stderr[i] = "http error") =>
          response /= None /\ stdout = <<ResponseLine>>
    /\ (RunEnded /\ response /= None /\ stdout = <<ResponseLine>>) =>
          /\ response[1].ok => exit_code = Some(0) /\ stderr = <<>>
          /\ ~response[1].ok => exit_code = Some(1) /\ stderr = <<"http error">>
    /\ (RunEnded /\ response /= None /\ stdout /= <<ResponseLine>>) =>
          \/ exit_code = Some(0) /\ stderr = <<>>
          \/ exit_code = Some(1) /\ stderr = <<"write error">>

\* A 404 whose raw view was written, then reported as a failure.
C3_Witness ==
    /\ RunEnded
    /\ response /= None
    /\ response[1].status = 404
    /\ raw
    /\ stdout = <<ResponseLine>>
    /\ stderr = <<"http error">>
    /\ exit_code = Some(1)

\* A token that is no number: it is empty or holds a character that no
\* decimal number holds.
NonNumeric(token) ==
    token = <<>> \/ \E i \in 1..Len(token) :
        ~is_ascii_digit(token[i]) /\ token[i] \notin {"+", "-", ".", "e", "E"}

\* The words that the number parser reads as a float that is not finite.
FloatWord(token) ==
    \E sign \in {<<>>, <<"+">>, <<"-">>}, word \in {Str("inf"), Str("infinity"), Str("nan")} :
        str_to_ascii_lowercase(token) = sign \o word

BooleanWord(token) ==
    str_to_ascii_lowercase(token) \in
        {Str("true"), Str("1"), Str("yes"), Str("false"), Str("0"), Str("no")}

\* The token does not have the type of the schema, in the words of C4.
IllTyped(schema, token) ==
    \/ schema.kind \in {"integer", "number"} /\ NonNumeric(token)
    \/ schema.kind = "boolean" /\ ~BooleanWord(token)

\* The same, a float word counting as a number for the number kind.
IllTypedNoWord(schema, token) ==
    IllTyped(schema, token) /\ ~(schema.kind = "number" /\ FloatWord(token))

RawBound == get_one(matches, ArgBody) /= None

FileBound == get_one(matches, ArgBodyFile) /= None

\* The input fields of the selected operation that are bound.
BoundFields ==
    IF op[1].body = None THEN {}
    ELSE {i \in 1..Len(op[1].body[1].input_fields) :
             get_many(matches, Str("body__") \o op[1].body[1].input_fields[i].name) /= None}

FieldAt(i) == op[1].body[1].input_fields[i]

FieldValues(i) == get_many(matches, Str("body__") \o FieldAt(i).name)[1]

\* The body is to be assembled from the input fields.
BodyFromInputs ==
    /\ op[1].body /= None
    /\ op[1].body[1].schema.kind = "object"
    /\ ~RawBound
    /\ ~FileBound

\* Some bound path or query parameter, or some bound body input field, of
\* a scalar kind has an ill-typed token.
IllTypedParam ==
    \E i \in 1..Len(op[1].params) :
        /\ op[1].params[i].location \in {"path", "query"}
        /\ get_one(matches, op[1].params[i].name) /= None
        /\ IllTyped(op[1].params[i].schema, get_one(matches, op[1].params[i].name)[1])

IllTypedField == \E i \in BoundFields : IllTyped(FieldAt(i).schema, FieldValues(i)[1])

\* Values supplied separately: more than one, or one that does not begin,
\* after leading whitespace, with [.
SeparateValues(values) ==
    Len(values) > 1 \/ ~starts_with(trim_start(values[1]), <<"[">>)

IllTypedItems(schema, values) ==
    /\ schema.kind = "array"
    /\ schema.item /= None
    /\ SeparateValues(values)
    /\ \E j \in 1..Len(values) : IllTypedNoWord(schema.item[1], values[j])

NoRequestAndError == requests = 0 /\ (RunEnded => exit_code = Some(1))

\* C4 as stated: whenever a token bound to a path parameter, a query
\* parameter or a body input field of integer or number kind is no number,
\* or one bound to such an argument of boolean kind is not one of true, 1,
\* yes, false, 0, no, the run issues no HTTP request and ends in an error.
C4_TypeErrorsFatal ==
    (op /= None /\ (IllTypedParam \/ IllTypedField)) => NoRequestAndError

\* C4, amended: the run issues no HTTP request and ends in an error
\* whenever an ill-typed token (for the number kind, one that is not inf,
\* infinity or nan either) is bound to a body input field of a body that is
\* assembled from the input fields, or is one of the separately supplied
\* values of an array-kind query parameter or of such a body input field.
\* A token of a scalar path or query parameter is not type-checked.
C4_TypeErrorsFatalWhereCoerced ==
    (/\ op /= None
     /\ \/ BodyFromInputs /\ \E i \in BoundFields :
              \/ IllTypedNoWord(FieldAt(i).schema, FieldValues(i)[1])
              \/ IllTypedItems(FieldAt(i).schema, FieldValues(i))
        \/ \E i \in 1..Len(op[1].params) :
              /\ op[1].params[i].location = "query"
              /\ get_many(matches, op[1].params[i].name) /= None
              /\ IllTypedItems(op[1].params[i].schema, get_many(matches, op[1].params[i].name)[1]))
    => NoRequestAndError

\* The boolean input field of a body assembled from the fields was given
\* "maybe": the run ended in the error, before any request.
C4_Witness ==
    /\ RunEnded
    /\ op /= None
    /\ op[1].name = Str("create")
    /\ BodyFromInputs
    /\ get_one(matches, Str("body__active")) = Some(Str("maybe"))
    /\ get_one(matches, Str("body__nodes")) = None
    /\ stderr = <<"invalid boolean">>
    /\ requests = 0

\* The run has built its body, or has ended where it was to build it.
BodyDecided ==
    /\ op /= None
    /\ pc = "body" \/ (RunEnded /\ url /= None /\ requests = 0)

BodyOutcome == IF pc = "body" THEN Ok(body[1]) ELSE Err(stderr[Len(stderr)])

\* A JSON text is used verbatim, or refused with the error of its source.
Verbatim(text, error) ==
    IF serde_json_from_str(text).ok
    THEN BodyOutcome = Ok(Some(serde_json_from_str(text).val))
    ELSE BodyOutcome = Err(error)

CoercionErrors ==
    {"invalid digit found in string", "invalid float literal", "invalid boolean",
     "invalid JSON value", "invalid JSON list"}

\* C6: the body is decided in a fixed order. Without a declared body, a
\* bound --body or --body-file is an error and the body is absent
\* otherwise. With one, --body and --body-file together are an error; one
\* of them alone is parsed as JSON and used as it is, whatever input fields
\* are bound; else, for an object schema with input fields of which one is
\* bound, the body is the object of the bound fields, unless a value is
\* refused; else the body is absent, which is the error "request body
\* required" for a required body.
C6_BodyPriority ==
    BodyDecided =>
        IF op[1].body = None
        THEN BodyOutcome = (IF RawBound \/ FileBound
                            THEN Err("request does not accept a body") ELSE Ok(None))
        ELSE IF RawBound /\ FileBound
        THEN BodyOutcome = Err("use only one of --body or --body-file")
        ELSE IF RawBound
        THEN Verbatim(get_one(matches, ArgBody)[1], "invalid JSON body")
        ELSE IF FileBound
        THEN \/ BodyOutcome = Err("failed to read body file")
             \/ \E text \in BodyTexts : Verbatim(text, "invalid JSON body file")
        ELSE IF op[1].body[1].schema.kind = "object" /\ BoundFields /= {}
        THEN \/ /\ BodyOutcome.ok
                /\ BodyOutcome.val /= None
                /\ BodyOutcome.val[1].t = "object"
                /\ DOMAIN BodyOutcome.val[1].o = {FieldAt(i).name : i \in BoundFields}
             \/ ~BodyOutcome.ok /\ BodyOutcome.err \in CoercionErrors
        ELSE BodyOutcome = (IF op[1].body[1].required
                            THEN Err("request body required") ELSE Ok(None))

\* --body was used as it is although an input field was bound as well.
C6_Witness ==
    /\ pc = "body"
    /\ op[1].name = Str("create")
    /\ RawBound
    /\ ~FileBound
    /\ BoundFields /= {}
    /\ body = Some(Some(VObject(MapInsert(EmptyMap, Str("name"), VString(Str("x"))))))

(***************************************************************************)
(* The URL of a call: build_url on the base URLs, base paths and bindings  *)
(* of a run that has selected its operation.                               *)
(***************************************************************************)

UrlBaseUrls ==
    {Str("https://h/api/v1"), Str("https://h/api/v1/"), Str("https://h"),
     Str("https://h/api"), Str("h.local")}

UrlBasePaths == {Str("/api/v1"), Str("api/v1"), Str(" /api/v1 "), Str("/api/v1/")}

UrlCandidates(schema) ==
    CASE schema.kind = "integer" -> {<<Str("42")>>, <<Str("a b")>>, <<Str("a/b")>>, <<Str("..")>>}
      [] schema.kind = "array" -> {<<Str("1"), Str("2")>>, <<Str("1"), Str("x")>>}
      [] OTHER -> {<<Str("x")>>}

InitUrl ==
    /\ CoerceIdle
    /\ CompileIdle
    /\ pc = "selected"
    /\ tree \in {TreeWith(bp) : bp \in UrlBasePaths}
    /\ \E c \in TreeCalls(Tree) :
          /\ cmd = Some(Command("call", FALSE, c.res, c.op))
          /\ op = find_op(Tree, c.res, c.op)
          /\ matches \in ArgBindings(ParamArgs(find_op(Tree, c.res, c.op)[1].params, UrlCandidates),
                                     NoMatches)
    /\ pretty = FALSE
    /\ raw = FALSE
    /\ api_key \in {Some(k) : k \in ApiKeys}
    /\ base_url \in {Some(u) : u \in UrlBaseUrls}
    /\ url = None
    /\ body = None
    /\ response = None
    /\ stdout = <<>>
    /\ stderr = <<>>
    /\ exit_code = None
    /\ requests = 0

NextUrl == BuildUrl

SpecUrl == InitUrl /\ [][NextUrl]_vars

\* The base URL without its trailing slashes, and the base path with its
\* leading slash, in the words of C7.
StrippedBase == trim_end_matches(base_url[1], "/")

SlashedBasePath ==
    IF starts_with(trim(tree.base_path), <<"/">>)
    THEN trim(tree.base_path) ELSE <<"/">> \o trim(tree.base_path)

\* The path parameters of the selected operation.
PathParams == {i \in 1..Len(op[1].params) : op[1].params[i].location = "path"}

PathValue(i) == get_one(matches, op[1].params[i].name)

\* No bound path value is a dot segment, which URL parsing removes.
NoDotValue == \A i \in PathParams : PathValue(i) \notin {Some(Str(".")), Some(Str(".."))}

\* The text of the path before the first token.
PathHead(path) == IF IndexOf(path, "{") = 0 THEN path ELSE SubSeq(path, 1, IndexOf(path, "{") - 1)

TokenNames(path) ==
    {SubSeq(path, i + 1, j - 1) : <<i, j>> \in
        {ij \in (1..Len(path)) \X (1..Len(path)) :
            /\ ij[1] < ij[2]
            /\ path[ij[1]] = "{"
            /\ path[ij[2]] = "}"
            /\ \A k \in (ij[1] + 1)..(ij[2] - 1) : path[k] \notin {"{", "}"}}}

\* The URL holds the token of this name, as written or percent-encoded.
HoldsToken(name) ==
    \/ contains(url[1].href, <<"{">> \o name \o <<"}">>)
    \/ contains(url[1].href, Str("%7B") \o name \o Str("%7D"))

\* The text of the path before the token of this name.
BeforeToken(path, name) ==
    SubSeq(path, 1, (CHOOSE i \in 1..Len(path) :
                        /\ SubSeq(path, i, i + Len(name) + 1) = <<"{">> \o name \o <<"}">>
                        /\ \A j \in 1..(i - 1) :
                              SubSeq(path, j, j + Len(name) + 1) /= <<"{">> \o name \o <<"}">>) - 1)

\* A run that was to build its URL with a path parameter unbound has ended
\* with the missing-parameter error and without a URL.
MissingParamFails ==
    (pc /= "selected" /\ \E i \in PathParams : PathValue(i) = None) =>
        RunEnded /\ url = None /\ stderr = <<"missing required param">>

\* C8 as stated: the built URL holds, in place of every token, the
\* percent-encoded value of the path parameter of that name, and holds no
\* token of the operation path; a run with a path parameter unbound fails
\* with the missing-parameter error and builds no URL.
C8_PathSubstitution ==
    /\ pc = "url" =>
          /\ \A i \in PathParams :
                op[1].params[i].name \in TokenNames(op[1].path) =>
                    contains(url[1].href, BeforeToken(op[1].path, op[1].params[i].name)
                                          \o urlencoding_encode(PathValue(i)[1]))
          /\ \A name \in TokenNames(op[1].path) : ~HoldsToken(name)
    /\ MissingParamFails

\* C8, amended: the built URL holds, in place of the token of every path
\* parameter whose value is neither "." nor "..", the percent-encoded
\* value (id = "a b" on "/workflows/{id}" gives ".../workflows/a%20b"), and
\* holds no token of a path parameter; a run with a path parameter unbound
\* fails with the missing-parameter error and builds no URL.
C8_PathSubstitutionOfPathParams ==
    /\ pc = "url" =>
          /\ \A i \in PathParams :
                (/\ op[1].params[i].name \in TokenNames(op[1].path)
                 /\ PathValue(i)[1] \notin {Str("."), Str("..")}) =>
                    contains(url[1].href, BeforeToken(op[1].path, op[1].params[i].name)
                                          \o urlencoding_encode(PathValue(i)[1]))
          /\ (op[1].path = Str("/workflows/{id}") /\ get_one(matches, Str("id")) = Some(Str("a b"))) =>
                ends_with(url[1].href, Str("/workflows/a%20b"))
          /\ (op[1].path = Str("/workflows/{id}") /\ get_one(matches, Str("id")) = Some(Str("a/b"))) =>
                ends_with(url[1].href, Str("/workflows/a%2Fb"))
          /\ \A i \in PathParams : ~HoldsToken(op[1].params[i].name)
    /\ MissingParamFails

\* The value "a b" of the path parameter id, percent-encoded in the URL.
C8_Witness ==
    /\ pc = "url"
    /\ op[1].path = Str("/workflows/{id}")
    /\ get_one(matches, Str("id")) = Some(Str("a b"))
    /\ url[1].href = Str("https://h/api/v1/workflows/a%20b")

(***************************************************************************)
(* The two ways to supply a list to an array-kind argument: the tokens as  *)
(* separate values of the flag, and one JSON literal of the tokens.        *)
(***************************************************************************)

MaxTokens == 3

ListTokens ==
    {Str("1"), Str("2"), Str("-1"), Str("+1"), Str("01"), Str("-0"), Str("x"),
     Str("[1,2]"), Str(" [2]")}

TokenLists == UNION {[1..n -> ListTokens] : n \in 1..MaxTokens}

IntegerArray == ArrayOf(Scalar("integer"))

\* "[t1,...,tn]"
RECURSIVE comma_joined(_)
comma_joined(tokens) ==
    IF Len(tokens) = 1 THEN tokens[1] ELSE tokens[1] \o <<",">> \o comma_joined(Tail(tokens))

json_literal_of(tokens) == <<"[">> \o comma_joined(tokens) \o <<"]">>

InitCoerce ==
    /\ RunStart(Tree)
    /\ CompileIdle
    /\ list_tokens \in TokenLists
    /\ list_separate = None
    /\ list_literal = None

\* The flag given once for every token.
CoerceSeparate ==
    /\ list_separate = None
    /\ list_separate' = Some(parse_list_value(IntegerArray, list_tokens))
    /\ UNCHANGED <<runVars, compileVars, list_tokens, list_literal>>

\* The flag given once, with the JSON literal of the tokens.
CoerceLiteral ==
    /\ list_literal = None
    /\ list_literal' = Some(parse_list_value(IntegerArray, <<json_literal_of(list_tokens)>>))
    /\ UNCHANGED <<runVars, compileVars, list_tokens, list_separate>>

NextCoerce == CoerceSeparate \/ CoerceLiteral

SpecCoerce == InitCoerce /\ [][NextCoerce]_vars

\* Every token is coerced to an integer.
AllIntegers(tokens) ==
    \A i \in 1..Len(tokens) : parse_scalar_value(Scalar("integer"), tokens[i]).ok

\* The array of the integers of the tokens, in their order.
IntegersOf(tokens) == VArray([i \in 1..Len(tokens) |-> VInt(parse_i64(tokens[i]).val)])

\* The token is the decimal text of its integer: no +, no leading zero and
\* not -0.
Canonical(token) == parse_i64(token).ok /\ IntToStr(parse_i64(token).val) = token

\* One value, whose trimmed text begins with [.
LiteralShape(values) == Len(values) = 1 /\ starts_with(trim(values[1]), <<"[">>)

\* The values were read as one JSON literal exactly when they have that
\* shape, and token by token otherwise.
LiteralModeByShape ==
    list_separate /= None =>
        IF LiteralShape(list_tokens)
        THEN list_separate[1] =
                (IF serde_json_from_str(list_tokens[1]).ok
                 THEN Ok(serde_json_from_str(list_tokens[1]).val)
                 ELSE Err("invalid JSON list"))
        ELSE list_separate[1] =
                (IF AllIntegers(list_tokens) THEN Ok(IntegersOf(list_tokens))
                 ELSE Err("invalid digit found in string"))

BothCoerced == list_separate /= None /\ list_literal /= None

Member(key, value) == << <<key, value>> >>

Components ==
    JObj(<< <<"schemas", JObj(<<
                <<"Id", JType("integer")>>,
                <<"Ids", JObj(<< <<"type", JStr("array")>>,
                                 <<"items", JRef("#/components/schemas/Id")>> >>)>>,
                <<"Loop", JObj(<< <<"allOf", VArray(<<JRef("#/components/schemas/Loop")>>)>> >>)>>,
                <<"Either", JObj(<< <<"oneOf", VArray(<<JRef("#/components/schemas/Either")>>)>> >>)>>,
                <<"Nested", JObj(<< <<"type", JStr("array")>>,
                                    <<"items", JRef("#/components/schemas/Nested")>> >>)>>,
                <<"Self", JRef("#/components/schemas/Self")>>,
                <<"Obj", JObj(<< <<"type", JStr("object")>>,
                                 <<"properties", JObj(<< <<"name", JType("string")>>,
                                                         <<"ids", JRef("#/components/schemas/Ids")>> >>)>>,
                                 <<"required", VArray(<<JStr("name")>>)>> >>)>>,
                <<"Node", JObj(<< <<"properties",
                                    JObj(<< <<"next", JRef("#/components/schemas/Nested")>> >>)>> >>)>>,
                <<"Wrapped", JObj(<< <<"allOf", VArray(<<JRef("#/components/schemas/Obj")>>)>> >>)>>
              >>)>>,
            <<"parameters", JObj(<<
                <<"Id", JObj(<< <<"name", JStr("id")>>, <<"in", JStr("header")>>,
                                <<"schema", JRef("#/components/schemas/Id")>> >>)>> >>)>> >>)

DocOf(paths) ==
    JObj(<< <<"info", JObj(<< <<"version", JStr("1.1.1")>> >>)>>,
            <<"servers", VArray(<<JObj(<< <<"url", JStr("/api/v1")>> >>)>>)>>,
            <<"components", Components>>,
            <<"paths", paths>> >>)

\* The documents that differ in the tags and the ids of two operations of
\* one path.
TagMembers ==
    {<<>>, Member("tags", VArray(<<JStr("Users")>>)),
     Member("tags", VArray(<<JStr("users"), JStr("admin")>>)), Member("tags", VArray(<<>>))}

IdMembers ==
    {<<>>, Member("operationId", JStr("getUser")), Member("operationId", JStr("get_user")),
     Member("x-eov-operation-id", JStr("listUsers")),
     Member("operationId", VInt(7)) \o Member("x-eov-operation-id", JStr("listUsers"))}

NameDocs ==
    {DocOf(JObj(<< <<"/users", JObj(<< <<"get", JObj(t1 \o i1)>>,
                                       <<"post", JObj(t2 \o i2)>> >>)>> >>)) :
        t1 \in TagMembers, i1 \in IdMembers, t2 \in TagMembers, i2 \in IdMembers}

\* The documents that differ in the shared and the own parameters of one
\* operation.
RawParams ==
    {JObj(<< <<"name", JStr("id")>>, <<"in", JStr("path")>>, <<"required", VBool(TRUE)>>,
             <<"schema", JType("integer")>> >>),
     JObj(<< <<"name", JStr("id")>>, <<"in", JStr("path")>>, <<"required", VBool(FALSE)>>,
             <<"schema", JType("string")>> >>),
     JObj(<< <<"name", JStr("limit")>>, <<"schema", JType("integer")>> >>),
     JObj(<< <<"in", JStr("query")>> >>),
     JRef("#/components/parameters/Id")}

RawParamLists == {<<>>} \cup {<<p>> : p \in RawParams} \cup {<<p, q>> : p \in RawParams, q \in RawParams}

ParamDocs ==
    {DocOf(JObj(<< <<"/users/{id}",
                     JObj(<< <<"parameters", VArray(shared)>>,
                             <<"get", JObj(<< <<"operationId", JStr("getUser")>>,
                                              <<"parameters", VArray(own)>> >>)>> >>)>> >>)) :
        shared \in RawParamLists, own \in RawParamLists}

\* The documents that differ in the schema of a parameter and of a body.
SchemaNodes ==
    {JType("integer"), JRef("#/components/schemas/Ids"), JRef("#/components/schemas/Obj"),
     JRef("#/components/schemas/Self"), JRef("#/components/schemas/Loop"),
     JRef("#/components/schemas/Either"), JRef("#/components/schemas/Nested"),
     JRef("#/components/schemas/Node"), JRef("#/components/schemas/Wrapped"),
     JObj(<< <<"properties", JObj(<< <<"first_name", JType("string")>>,
                                     <<"Age", JType("integer")>> >>)>>,
             <<"required", VArray(<<JStr("Age"), VInt(1)>>)>> >>)}

BodyMembers ==
    {<<>>} \cup {Member("requestBody",
                        JObj(<< <<"required", VBool(TRUE)>>,
                                <<"content", JObj(<< <<"application/json",
                                                       JObj(<< <<"schema", b>> >>)>> >>)>> >>)) :
                    b \in SchemaNodes}

SchemaDocs ==
    {DocOf(JObj(<< <<"/things",
                     JObj(<< <<"get", JObj(<< <<"parameters",
                                                VArray(<<JObj(<< <<"name", JStr("q")>>,
                                                                 <<"schema", s>> >>)>>)>> >>)>>,
                             <<"post", JObj(b)>> >>)>> >>)) :
        s \in SchemaNodes, b \in BodyMembers}

\* A document without paths, and one whose operation is not an object.
OddDocs ==
    {JObj(<< <<"info", JObj(<<>>)>> >>),
     DocOf(JObj(<< <<"/users", JObj(<< <<"get", JStr("x")>> >>)>> >>))}

\* The documents whose operation has parameters of one name in two
\* locations, parameters whose names normalize to one flag, a parameter
\* named as the body argument, and a parameter named as the flag of a body
\* field.
NamedParam(name, location) == JObj(<< <<"name", JStr(name)>>, <<"in", JStr(location)>> >>)

ArgumentDocs ==
    {DocOf(JObj(<< <<"/users/{id}",
                     JObj(<< <<"post",
                               JObj(<< <<"operationId", JStr("putUser")>>,
                                       <<"parameters", VArray(ps)>>,
                                       <<"requestBody",
                                         JObj(<< <<"content",
                                                   JObj(<< <<"application/json",
                                                             JObj(<< <<"schema",
                                                                       JRef("#/components/schemas/Obj")>> >>)>> >>)>> >>)>>
                                    >>)>> >>)>> >>)) :
        ps \in {<<NamedParam("id", "path"), NamedParam("id", "query")>>,
                 <<NamedParam("userId", "query"), NamedParam("user_id", "query")>>,
                 <<NamedParam("id", "path"), NamedParam("body", "query")>>,
                 <<NamedParam("id", "path"), NamedParam("input_name", "query")>>,
                 <<NamedParam("id", "path"), NamedParam("limit", "query")>>}}

Docs == NameDocs \cup ParamDocs \cup SchemaDocs \cup OddDocs \cup ArgumentDocs

InitCompile ==
    /\ RunStart(Tree)
    /\ CoerceIdle
    /\ doc \in Docs
    /\ c_pc = "start"
    /\ work = <<>>
    /\ resources = EmptyMap
    /\ out_tree = None
    /\ CallIdle

NotCompile == <<runVars, coerceVars, callVars>>

\* main, up to the loops: without a paths object the compiler fails.
ReadPaths ==
    /\ c_pc = "start"
    /\ IF get_object(doc, "paths") = None
       THEN c_pc' = "failed" /\ UNCHANGED work
       ELSE c_pc' = "ops" /\ work' = work_of(get_object(doc, "paths")[1])
    /\ UNCHANGED <<doc, resources, out_tree, NotCompile>>

\* main, one turn of the inner loop: a method the path item does not have
\* is passed over; an operation that is no object fails the compiler; else
\* the operation is pushed to its resource, unless the stack is used up.
CompileOperation ==
    /\ c_pc = "ops"
    /\ work /= <<>>
    /\ \E item \in {get_object(doc, "paths")[1][work[1][1]]} :
          \E o \in {value_get(item, work[1][2])} :
             IF o = None THEN work' = Tail(work) /\ UNCHANGED <<c_pc, resources>>
             ELSE IF o[1].t /= "object" THEN c_pc' = "failed" /\ UNCHANGED <<work, resources>>
             ELSE \E compiled \in {operation_of(doc, work[1][1], item, work[1][2], o[1])} :
                     IF compiled.overflow
                     THEN c_pc' = "stack_overflow" /\ UNCHANGED <<work, resources>>
                     ELSE /\ resources' = push_op(resources, resource_of(o[1]), compiled.val)
                          /\ work' = Tail(work)
                          /\ UNCHANGED c_pc
    /\ UNCHANGED <<doc, out_tree, NotCompile>>

\* main, after the loops: the tree is written, or the write fails.
EmitTree ==
    /\ c_pc = "ops"
    /\ work = <<>>
    /\ \/ out_tree' = Some(tree_of(doc, resources)) /\ c_pc' = "done"
       \/ c_pc' = "failed" /\ UNCHANGED out_tree
    /\ UNCHANGED <<doc, work, resources, NotCompile>>

NextCompile == ReadPaths \/ CompileOperation \/ EmitTree

SpecCompile == InitCompile /\ [][NextCompile]_vars

\* C1: in the tree the compiler writes, no two operations of a resource
\* have the same name and no two resources have the same name.
C1_UniqueNames ==
    out_tree /= None =>
        /\ \A r \in 1..Len(out_tree[1].resources) :
              \A i, j \in 1..Len(out_tree[1].resources[r].ops) :
                 i /= j => out_tree[1].resources[r].ops[i].name /= out_tree[1].resources[r].ops[j].name
        /\ \A q, r \in 1..Len(out_tree[1].resources) :
              q /= r => out_tree[1].resources[q].name /= out_tree[1].resources[r].name

\* C2: the resolution of every schema of every document returns a
\* SchemaDef: the compiler is never killed for having used up its stack
\* in the calls of schema_def.
C2_ResolutionReturns == c_pc /= "stack_overflow"

\* The operations pushed so far, each with the raw parameter lists it was
\* merged from: those of its path item and its own.
Pushed ==
    UNION {{resources[r][i] : i \in 1..Len(resources[r])} : r \in DOMAIN resources}

SharedOf(o) == unwrap_or(get_array(get_object(doc, "paths")[1][o.path], "parameters"), <<>>)

OwnOf(o) ==
    unwrap_or(get_array(value_get(get_object(doc, "paths")[1][o.path],
                                  Text(str_to_ascii_lowercase(Str(o.method))))[1],
                        "parameters"), <<>>)

\* The entries of the raw parameters that have a name, in their order.
EntriesOf(params) ==
    LET named == {i \in 1..Len(params) : parse_param(doc, params[i]).val /= None}
    IN [k \in 1..Cardinality(named) |->
           parse_param(doc, params[CHOOSE i \in named : Cardinality({j \in named : j < i}) = k - 1]).val[1]]

KeyOf(entry) == <<entry.location, entry.name>>

KeysOf(entries) == {KeyOf(entries[i]) : i \in 1..Len(entries)}

\* The last entry with the key.
LastWith(entries, key) ==
    entries[CHOOSE i \in 1..Len(entries) :
                /\ KeyOf(entries[i]) = key
                /\ \A j \in (i + 1)..Len(entries) : KeyOf(entries[j]) /= key]

KeyBefore(a, b) ==
    \/ StrLess(Str(a[1]), Str(b[1]))
    \/ a[1] = b[1] /\ StrLess(a[2], b[2])

\* C10: the merged parameters of an operation have one entry for every
\* (location, name) key of a shared or an own parameter with a name, and no
\* other; the entry is the whole of the last own parameter with the key,
\* and of the last shared one only when no own parameter has it; they are
\* in ascending order of (location, name).
C10_ParameterMerge ==
    \A o \in Pushed :
        /\ \A i, j \in 1..Len(o.params) : i /= j => KeyOf(o.params[i]) /= KeyOf(o.params[j])
        /\ KeysOf(o.params) = KeysOf(EntriesOf(SharedOf(o))) \cup KeysOf(EntriesOf(OwnOf(o)))
        /\ \A i \in 1..Len(o.params) :
              o.params[i] = (IF KeyOf(o.params[i]) \in KeysOf(EntriesOf(OwnOf(o)))
                             THEN LastWith(EntriesOf(OwnOf(o)), KeyOf(o.params[i]))
                             ELSE LastWith(EntriesOf(SharedOf(o)), KeyOf(o.params[i])))
        /\ \A i, j \in 1..Len(o.params) :
              i < j => KeyBefore(KeyOf(o.params[i]), KeyOf(o.params[j]))

\* The shared path parameter id, required, and the own path parameter id,
\* not required, have given the one entry that is not required; the
\* parameter without a name has given none.
C10_Witness ==
    /\ c_pc = "done"
    /\ \E o \in Pushed :
          /\ Len(SharedOf(o)) = 2
          /\ get_bool(SharedOf(o)[1], "required") = Some(TRUE)
          /\ get_str(SharedOf(o)[1], "in") = Some(Str("path"))
          /\ get_str(SharedOf(o)[2], "name") = None
          /\ Len(OwnOf(o)) = 1
          /\ get_bool(OwnOf(o)[1], "required") = Some(FALSE)
          /\ get_str(OwnOf(o)[1], "in") = Some(Str("path"))
          /\ Len(o.params) = 1
          /\ o.params[1].name = Str("id")
          /\ o.params[1].location = "path"
          /\ ~o.params[1].required
          /\ o.params[1].schema = Scalar("string")

(***************************************************************************)
(* One call of schema_def on a schema node                                 *)
(***************************************************************************)

\* The members a schema node may have besides its reference: a type, the
\* composites, properties and items.
TypeMembers ==
    {<<>>, Member("type", JStr("string")), Member("type", JStr("integer")),
     Member("type", JStr("object")), Member("type", JStr("array")),
     Member("type", JStr("null")),
     Member("type", VArray(<<JStr("string"), JStr("null")>>))}

CompositeMembers ==
    {<<>>, Member("allOf", VArray(<<>>)), Member("allOf", VArray(<<JType("boolean")>>)),
     Member("oneOf", VArray(<<JType("number")>>)),
     Member("allOf", VArray(<<JType("boolean")>>)) \o Member("oneOf", VArray(<<JType("number")>>))}

PropertiesMembers ==
    {<<>>, Member("properties", JObj(<< <<"name", JType("string")>> >>))}

ItemsMembers ==
    {<<>>, Member("items", JType("integer")), Member("items", JRef("#/components/schemas/Ids"))}

\* Nodes that are references: to a schema of the document, to itself, to
\* nothing, to another document, and one with a type beside the reference.
RefNodes ==
    {JRef("#/components/schemas/Ids"), JRef("#/components/schemas/Obj"),
     JRef("#/components/schemas/Self"), JRef("#/components/schemas/Missing"),
     JRef("other.yaml#/components/schemas/Id"),
     JObj(<< <<"$ref", JStr("#/components/schemas/Id")>>, <<"type", JStr("string")>> >>),
     VNull}

ResolveNodes ==
    {JObj(t \o c \o p \o i) :
        t \in TypeMembers, c \in CompositeMembers, p \in PropertiesMembers, i \in ItemsMembers}
    \cup RefNodes

InitResolve ==
    /\ RunStart(Tree)
    /\ CoerceIdle
    /\ doc = DocOf(JObj(<<>>))
    /\ c_pc = "start"
    /\ work = <<>>
    /\ resources = EmptyMap
    /\ out_tree = None
    /\ r_schema \in ResolveNodes
    /\ r_def = None
    /\ k_value = <<>>
    /\ k_once = None
    /\ k_twice = None

\* schema_def(doc, schema)
Resolve ==
    /\ r_def = None
    /\ r_def' = Some(schema_def(doc, r_schema))
    /\ UNCHANGED <<runVars, coerceVars, doc, c_pc, work, resources, out_tree,
                   r_schema, k_value, k_once, k_twice>>

NextResolve == Resolve

SpecResolve == InitResolve /\ [][NextResolve]_vars

Kinds == {"string", "integer", "number", "boolean", "object", "array", "unknown"}

\* The kind is one of the seven, and an item is there only for an array,
\* the item being such a SchemaDef itself.
RECURSIVE WellFormed(_)
WellFormed(def) ==
    /\ def.kind \in Kinds
    /\ def.item /= None => def.kind = "array" /\ WellFormed(def.item[1])

\* C11: the SchemaDef that schema_def returns for a schema node has one of
\* the seven kinds, and an item only when its kind is array.
C11_KindsAndItems ==
    (r_def /= None /\ ~r_def[1].overflow) => WellFormed(r_def[1].val)

\* The item of the array that the items of a node resolve to, if it has
\* any.
ItemOf(s) ==
    IF value_get(s, "items") = None THEN None
    ELSE Some(schema_def_at(doc, value_get(s, "items")[1], 2).val)

\* The SchemaDef mapped from a type that is a string.
OfType(s) ==
    IF get_str(s, "type") = Some(Str("array")) THEN SchemaDef("array", ItemOf(s))
    ELSE SchemaDef(Text(get_str(s, "type")[1]), None)

\* The SchemaDef inferred for a node without a type.
Inferred(s) ==
    IF value_get(s, "properties") /= None THEN SchemaDef("object", None)
    ELSE IF value_get(s, "items") /= None THEN SchemaDef("array", ItemOf(s))
    ELSE SchemaDef("unknown", None)

\* C12 as stated: a node with a type has the SchemaDef mapped from the
\* type, whatever else it has.
C12_ExplicitTypeWins ==
    (r_def /= None /\ get_str(r_schema, "type") /= None) => r_def[1].val = OfType(r_schema)

\* The node that decides: the one a local reference names, else the node.
Decides == resolve_ref(doc, r_schema)

Composite(s) ==
    first_of(get_array(s, "allOf")) /= None \/ first_of(get_array(s, "oneOf")) /= None

\* C12, amended: the type of the node that decides (the target of a local
\* reference replacing the node that refers, with all its members) wins
\* over properties and items when it is a string and neither allOf nor
\* oneOf has a first member; a first member of allOf, else of oneOf, wins
\* over the type; a type that is no string counts as absent, and only then
\* and without a type are properties and items looked at.
C12_ExplicitTypeWinsAfterComposites ==
    r_def /= None =>
        /\ (~Composite(Decides) /\ get_str(Decides, "type") /= None) =>
              r_def[1].val = OfType(Decides)
        /\ (~Composite(Decides) /\ get_str(Decides, "type") = None) =>
              r_def[1].val = Inferred(Decides)
        /\ first_of(get_array(Decides, "allOf")) /= None =>
              r_def[1].val = Scalar("boolean")
        /\ (first_of(get_array(Decides, "allOf")) = None /\ Composite(Decides)) =>
              r_def[1].val = Scalar("number")

\* A node of type string that has properties and items as well is a
\* string.
C12_Witness ==
    /\ r_schema = JObj(Member("type", JStr("string"))
                       \o Member("properties", JObj(<< <<"name", JType("string")>> >>))
                       \o Member("items", JType("integer")))
    /\ r_def = Some(Returned(Scalar("string")))

(***************************************************************************)
(* The input fields of the bodies the compiler has pushed                  *)
(***************************************************************************)

\* The schema node of the request body an operation was compiled from: that
\* of application/json.
BodySchemaOf(o) ==
    unwrap_or(
        value_get(
            get_object(
                resolve_ref(doc,
                    value_get(value_get(get_object(doc, "paths")[1][o.path],
                                        Text(str_to_ascii_lowercase(Str(o.method))))[1],
                              "requestBody")[1]),
                "content")[1][Str("application/json")],
            "schema"),
        VNull)

\* The node that was resolved to the kind: the one reached by following
\* the references and the first members of allOf and oneOf.
RECURSIVE KindNode(_)
KindNode(schema) ==
    LET Reached(s) ==
            IF first_of(get_array(s, "allOf")) /= None
            THEN KindNode(first_of(get_array(s, "allOf"))[1])
            ELSE IF first_of(get_array(s, "oneOf")) /= None
            THEN KindNode(first_of(get_array(s, "oneOf"))[1])
            ELSE s
    IN Reached(resolve_ref(doc, schema))

\* One field for every property of the node, in the order of the names.
FieldsOf(s) ==
    LET Names(props) ==
            [i \in 1..Cardinality(DOMAIN props) |->
                [name |-> sorted_keys(DOMAIN props)[i],
                 flag |-> Str("input-") \o to_kebab(sorted_keys(DOMAIN props)[i]),
                 required |-> \E j \in 1..Len(unwrap_or(get_array(s, "required"), <<>>)) :
                                 get_array(s, "required")[1][j] = VString(sorted_keys(DOMAIN props)[i]),
                 schema |-> schema_def_at(doc, props[sorted_keys(DOMAIN props)[i]], 1).val]]
    IN IF get_object(s, "properties") = None THEN <<>>
       ELSE Names(get_object(s, "properties")[1])

\* C13: a pushed body of kind object has one input field for every
\* property of the schema node that was resolved to the object kind, with
\* the flag "input-" and the normalized name, required when the node's
\* required list names it, in the order of the names; a body of another
\* kind has no input field.
C13_InputFields ==
    \A o \in Pushed :
        o.body /= None =>
            o.body[1].input_fields =
                (IF o.body[1].schema.kind = "object"
                 THEN FieldsOf(KindNode(BodySchemaOf(o))) ELSE <<>>)

\* The same, with the properties taken from the body's schema node itself
\* (the target of its reference), not from the node a composite leads to.
InputFieldsOfTheNode ==
    \A o \in Pushed :
        o.body /= None =>
            o.body[1].input_fields =
                (IF o.body[1].schema.kind = "object"
                 THEN FieldsOf(resolve_ref(doc, BodySchemaOf(o))) ELSE <<>>)

(***************************************************************************)
(* to_kebab of an identifier, and of the token it gives                    *)
(***************************************************************************)

\* The length of the identifiers tried.
MaxLen == 4

KebabAlphabet == {"a", "B", "1", "_", " ", "-"}

Identifiers ==
    UNION {[1..n -> KebabAlphabet] : n \in 0..MaxLen}
    \cup {Str("fooBarBaz"), Str("foo_bar baz")}

InitKebab ==
    /\ RunStart(Tree)
    /\ CoerceIdle
    /\ doc = VNull
    /\ c_pc = "start"
    /\ work = <<>>
    /\ resources = EmptyMap
    /\ out_tree = None
    /\ r_schema = VNull
    /\ r_def = None
    /\ k_value \in Identifiers
    /\ k_once = None
    /\ k_twice = None

\* to_kebab(value)
KebabOnce ==
    /\ k_once = None
    /\ k_once' = Some(to_kebab(k_value))
    /\ UNCHANGED <<runVars, coerceVars, doc, c_pc, work, resources, out_tree,
                   r_schema, r_def, k_value, k_twice>>

\* to_kebab of the token.
KebabTwice ==
    /\ k_once /= None
    /\ k_twice = None
    /\ k_twice' = Some(to_kebab(k_once[1]))
    /\ UNCHANGED <<runVars, coerceVars, doc, c_pc, work, resources, out_tree,
                   r_schema, r_def, k_value, k_once>>

NextKebab == KebabOnce \/ KebabTwice

SpecKebab == InitKebab /\ [][NextKebab]_vars

Separators == {"_", " "}

\* The characters of a text that are neither separators nor hyphens.
RECURSIVE Letters(_)
Letters(s) ==
    IF s = <<>> THEN <<>>
    ELSE IF s[1] \in Separators \cup {"-"} THEN Letters(Tail(s))
    ELSE <<s[1]>> \o Letters(Tail(s))

\* C14: to_kebab of the token is the token; the token has no uppercase
\* letter, no _ and no space, and no hyphen at either end; it has the
\* letters of the identifier, lowercased, in their order; a lowercase
\* letter followed by an uppercase one has a hyphen between the two, and
\* so have two letters with one separator or two between them; an
\* identifier without a hyphen gives no two hyphens in a row; "fooBarBaz"
\* and "foo_bar baz" give "foo-bar-baz".
C14_Idempotent ==
    /\ k_twice /= None => k_twice = k_once
    /\ k_once /= None =>
          /\ \A i \in 1..Len(k_once[1]) :
                ~is_ascii_uppercase(k_once[1][i]) /\ k_once[1][i] \notin Separators
          /\ k_once[1] /= <<>> => k_once[1][1] /= "-" /\ k_once[1][Len(k_once[1])] /= "-"
          /\ Letters(k_once[1]) = str_to_ascii_lowercase(Letters(k_value))
          /\ \A i \in 1..(Len(k_value) - 1) :
                (is_ascii_lowercase(k_value[i]) /\ is_ascii_uppercase(k_value[i + 1])) =>
                    contains(k_once[1], <<k_value[i], "-", to_ascii_lowercase(k_value[i + 1])>>)
          /\ \A i \in 1..Len(k_value), j \in 1..Len(k_value) :
                (/\ j \in {i + 2, i + 3}
                 /\ k_value[i] \notin Separators \cup {"-"}
                 /\ k_value[j] \notin Separators \cup {"-"}
                 /\ \A m \in (i + 1)..(j - 1) : k_value[m] \in Separators) =>
                    contains(k_once[1], <<to_ascii_lowercase(k_value[i]), "-",
                                          to_ascii_lowercase(k_value[j])>>)
          /\ ~contains(k_value, <<"-">>) => ~contains(k_once[1], <<"-", "-">>)
          /\ k_value \in {Str("fooBarBaz"), Str("foo_bar baz")} => k_once[1] = Str("foo-bar-baz")

\* "fooBarBaz" has given "foo-bar-baz", and that has given itself.
C14_Witness ==
    /\ k_value = Str("fooBarBaz")
    /\ k_once = Some(Str("foo-bar-baz"))
    /\ k_twice = Some(Str("foo-bar-baz"))

(***************************************************************************)
(* The required input fields of a body assembled from the fields           *)
(***************************************************************************)

\* Some input field that the body marks required is not bound.
RequiredFieldUnbound ==
    \E i \in 1..Len(op[1].body[1].input_fields) : FieldAt(i).required /\ i \notin BoundFields

\* C15: a run that binds some input field of a body to be assembled from
\* the fields and leaves a required one unbound issues no request and ends
\* in an error; an object assembled from the fields has every required
\* field.
C15_RequiredFieldsPresent ==
    /\ (op /= None /\ BodyFromInputs /\ BoundFields /= {} /\ RequiredFieldUnbound) =>
          NoRequestAndError
    /\ (op /= None /\ BodyFromInputs /\ BoundFields /= {} /\ body /= None /\ body[1] /= None) =>
          \A i \in 1..Len(op[1].body[1].input_fields) :
             FieldAt(i).required => FieldAt(i).name \in DOMAIN body[1][1].o

(***************************************************************************)
(* The arguments registered for the operations of a compiled tree          *)
(* (build_cli, src/main.rs)                                                *)
(***************************************************************************)

\* build_param_arg: the argument of a parameter has the name as its id and
\* the flag as its long flag.
build_param_arg(param) == [id |-> param.name, long |-> param.flag]

\* build_input_field_arg: the argument of a body field has the key of the
\* field as its id.
build_input_field_arg(field) == [id |-> input_field_key(field), long |-> field.flag]

\* build_cli, for one operation: the arguments of the parameters, then
\* body, body-file and the arguments of the input fields when the
\* operation has a body.
op_args(o) ==
    [i \in 1..Len(o.params) |-> build_param_arg(o.params[i])]
    \o (IF o.body = None THEN <<>>
        ELSE <<[id |-> ArgBody, long |-> Str("body")],
               [id |-> ArgBodyFile, long |-> Str("body-file")]>>
             \o [i \in 1..Len(o.body[1].input_fields) |->
                    build_input_field_arg(o.body[1].input_fields[i])])

\* C16: the arguments registered for an operation that the compiler has
\* pushed have ids that differ two by two and long flags that differ two
\* by two.
C16_DistinctArguments ==
    \A o \in Pushed :
        \A i, j \in 1..Len(op_args(o)) :
            i /= j => /\ op_args(o)[i].id /= op_args(o)[j].id
                      /\ op_args(o)[i].long /= op_args(o)[j].long

====
